---- MODULE Spec2Model ----
(***************************************************************************)
(* Active-page resolution, load-state waiting and connection lifecycle of  *)
(* browser_bot.py, with its MCP tools and logging set-up, modelled as      *)
(* state machines.                                                         *)
(*                                                                         *)
(*   SpecSelect  - _find_most_recent_active_page on bounded page lists     *)
(*   SpecScan    - the page resolution of _get_active_page on bounded      *)
(*                 browsers (contexts, pages, reserved URLs)               *)
(*   SpecWait    - _page_wait_for_load_state                               *)
(*   Spec        - one public operation from call to return / raise        *)
(*   SpecAgent   - the agent run of run_task under its timeout             *)
(*   SpecConc    - several public operations in flight at once             *)
(*   SpecMcp     - one invocation of an MCP tool of mcp_server.py          *)
(*   SpecLog     - setup_logger_for_mcp_server of logging_config.py        *)
(*   SpecLaunch  - the tool launch_chrome_with_debug of mcp_server.py      *)
(*   SpecRank    - the page ranking while tabs are opened and used         *)
(*   SpecCapture - the output files of the page-source and screenshot      *)
(*                 operations                                              *)
(*   SpecGrid    - operations in remote mode and their grid sessions       *)
(*   SpecConfig  - the two remote flags derived from the environment       *)
(***************************************************************************)
EXTENDS Integers, Sequences, FiniteSets, TLC

VARIABLES
    \* ---- _find_most_recent_active_page (SpecSelect)
    pages,          \* the argument: the list of pages handed to selection
    rankFault,      \* an exception raised inside the outer try (sort, logging)
    selPc,          \* "call" | "returned"
    selected,       \* the return value (NoPage models None)
    page_info,      \* the local list page_info after the collection loop
    \* ---- _get_active_page resolution (SpecScan)
    contexts,       \* browser.contexts: a sequence of sequences of pages
    create_new_page,\* the keyword argument
    newPageFails,   \* browser.new_page() raises
    scanPc,         \* "call" | "returned" | "raised"
    all_pages,      \* the local list all_pages
    active_page,    \* the local active_page (NoPage before it is set)
    scanError,      \* the exception class that leaves the function, or "none"
    scanCloses,     \* number of browser.close() calls made by the function
    scanNewPages,   \* number of browser.new_page() calls
    \* ---- _page_wait_for_load_state (SpecWait)
    wPage,          \* when the page reaches each load state, when it is closed
    wState,         \* the argument state
    wTimeout,       \* the argument timeout (ms)
    wPc,            \* "call" | "returned" | "raised"
    wResult,        \* the return value
    wWaits,         \* the page.wait_for_load_state calls made, in order
    \* ---- one public operation (Spec)
    remote,         \* BROWSER_BOT_USE_REMOTE
    endpointDown,   \* nothing listens on CHROME_DEBUG_URL during the operation
    argFault,       \* what is wrong with the arguments of the call, or "none"
    op,             \* the public operation that was called
    url,            \* its url argument (preload_url for request)
    opPc,           \* the position of the operation
    navUrl,         \* the local url of _get_active_page, after normalisation
    connected,      \* connect_over_cdp returned a browser
    sessionStarted, \* run_task: browser_session.start() returned
    opPage,         \* the page returned by _get_active_page
    calls,          \* the calls made to the collaborators, in order
    opOutcome,      \* how the operation ended
    \* ---- the agent run of run_task (SpecAgent)
    aMaxSteps,      \* the argument max_steps: <<>> for None, <<n>> for n
    aEnv,           \* BROWSER_USE_MAX_STEPS: <<>> when unset, <<n>> for 'n'
    aAgent,         \* what agent.run does and after how many seconds
    aPc,            \* "call" | "done"
    aTimeout,       \* timeout_seconds
    aOutcome,       \* how run_task ended
    \* ---- operations in flight at the same time (SpecConc)
    cPc,            \* per operation: "idle" | "connected" | "resolved" | "closed"
    cBrowser,       \* per operation: its local variable browser (0: unset)
    cPage,          \* per operation: the page its resolution returned (0: none)
    cOpen,          \* the connections that are open
    cOwner,         \* per connection: the operation whose connect call made it
    cUses,          \* <<operation, connection>>: the operation used or closed it
    cFocus,         \* the tab of the browser that has the focus
    \* ---- the MCP tools (SpecMcp)
    mTool,          \* the tool that was invoked
    mTask,          \* browser_use_local_chrome: the argument task_text
    mPc,            \* "call" | "returned" | "raised"
    mCalls,         \* the operations of browser_bot the tool called
    mResult,        \* what the tool handed to the server
    \* ---- logging_config (SpecLog)
    logger_set_up,  \* the module flag
    lHandlers,      \* per logger: its list of handlers
    lPropagate,     \* per logger: its propagate attribute
    lCalls,         \* number of calls of setup_logger_for_mcp_server so far
    lBefore,        \* lHandlers and lPropagate before the latest call
    \* ---- launch_chrome_with_debug (SpecLaunch)
    lnEnv,          \* the machine: remote flag, port, endpoint, executable
    lnPc,           \* "call" | "returned"
    lnSpawned,      \* the flags of the Chrome that Popen started, or <<>>
    lnReport,       \* the kind of message that was returned
    \* ---- _find_most_recent_active_page, page by page (SpecRank)
    rkTabs,         \* the argument pages, each with the time of its last use
    rkPc,           \* "setup" | "loop" | "returned"
    rkNext,         \* the index of the page the loop queries next
    rkClock,        \* the wall clock of the browser (ms)
    rkAsked,        \* per queried page: the clock value when it was queried
    rkInfo,         \* the local list page_info
    rkSelected,     \* the return value (NoTab models None)
    \* ---- the save step of the capture operations (SpecCapture)
    fClock,         \* datetime.now(), in half seconds
    fFiles,         \* ~/Downloads: per path, the capture whose bytes it holds
    fReturned,      \* per capture, in order: operation, time, file_path
    \* ---- operations in remote mode, one after the other (SpecGrid)
    gSessions,      \* the WebDriver sessions that exist on the grid
    gCreated,       \* number of sessions webdriver.Remote has created
    gQuit,          \* number of sessions the program has quit
    gDone,          \* per finished operation: what it did
    \* ---- the environment and the two remote flags read from it (SpecConfig)
    cfEnvBot,       \* os.environ: BROWSER_BOT_USE_REMOTE, or PyNone
    cfEnvMcp,       \* os.environ: USE_REMOTE_BROWSER, or PyNone
    cfPc,           \* "env" before the modules are imported, then "running"
    cfBotRemote,    \* browser_bot.BROWSER_BOT_USE_REMOTE
    cfMcpRemote,    \* mcp_server.USE_REMOTE_BROWSER
    cfLaunch,       \* what launch_chrome_with_debug last did
    cfConnect       \* how the last browser operation connected

selVars == <<pages, rankFault, selPc, selected, page_info>>
scanVars == <<contexts, create_new_page, newPageFails, scanPc, all_pages,
              active_page, scanError, scanCloses, scanNewPages>>
waitVars == <<wPage, wState, wTimeout, wPc, wResult, wWaits>>
opVars == <<remote, endpointDown, argFault, op, url, opPc, navUrl, connected,
            sessionStarted, opPage,
            calls, opOutcome>>
agentVars == <<aMaxSteps, aEnv, aAgent, aPc, aTimeout, aOutcome>>
concVars == <<cPc, cBrowser, cPage, cOpen, cOwner, cUses, cFocus>>
mcpVars == <<mTool, mTask, mPc, mCalls, mResult>>
logVars == <<logger_set_up, lHandlers, lPropagate, lCalls, lBefore>>
launchVars == <<lnEnv, lnPc, lnSpawned, lnReport>>
rankVars == <<rkTabs, rkPc, rkNext, rkClock, rkAsked, rkInfo, rkSelected>>
captureVars == <<fClock, fFiles, fReturned>>
gridVars == <<gSessions, gCreated, gQuit, gDone>>
configVars == <<cfEnvBot, cfEnvMcp, cfPc, cfBotRemote, cfMcpRemote, cfLaunch, cfConnect>>
extraVars == <<agentVars, concVars, mcpVars, logVars, launchVars, rankVars,
               captureVars, gridVars, configVars>>
coreVars == <<selVars, scanVars, waitVars, opVars>>
vars == <<coreVars, extraVars>>

\* What the actions of one specification leave alone
notSel == <<scanVars, waitVars, opVars, extraVars>>
notScan == <<selVars, waitVars, opVars, extraVars>>
notWait == <<selVars, scanVars, opVars, extraVars>>
notOp == <<selVars, scanVars, waitVars, extraVars>>
\* everything outside the public operation except browser.contexts
opBrowserFrame ==
    <<selVars, create_new_page, newPageFails, scanPc, all_pages, active_page,
      scanError, scanCloses, scanNewPages, waitVars, extraVars>>
notAgent == <<coreVars, concVars, mcpVars, logVars, launchVars, rankVars,
              captureVars, gridVars, configVars>>
notConc == <<coreVars, agentVars, mcpVars, logVars, launchVars, rankVars,
             captureVars, gridVars, configVars>>
notMcp == <<coreVars, agentVars, concVars, logVars, launchVars, rankVars,
            captureVars, gridVars, configVars>>
notLog == <<coreVars, agentVars, concVars, mcpVars, launchVars, rankVars,
            captureVars, gridVars, configVars>>
notLaunch == <<coreVars, agentVars, concVars, mcpVars, logVars, rankVars,
               captureVars, gridVars, configVars>>
notRank == <<coreVars, agentVars, concVars, mcpVars, logVars, launchVars,
             captureVars, gridVars, configVars>>
notCapture == <<coreVars, agentVars, concVars, mcpVars, logVars, launchVars,
                rankVars, gridVars, configVars>>
notGrid == <<coreVars, agentVars, concVars, mcpVars, logVars, launchVars,
             rankVars, captureVars, configVars>>
notConfig == <<coreVars, agentVars, concVars, mcpVars, logVars, launchVars,
               rankVars, captureVars, gridVars>>

(***************************************************************************)
(* Bounds                                                                  *)
(***************************************************************************)
MaxPages == 3
MaxTs == 1
MaxScanPages == 2
MaxContexts == 2
MaxOps == 2             \* operations in flight at the same time
MaxSetupCalls == 3      \* calls of setup_logger_for_mcp_server
MaxTaskLen == 2         \* characters of a task text
MaxRankPages == 2       \* pages handed to the ranking, queried one by one
MaxTicks == 3           \* half seconds that pass while captures are made
MaxCaptures == 2        \* capture operations that reach their save step
MaxGridOps == 2         \* operations run in remote mode

(***************************************************************************)
(* Pages.  A URL is a sequence of tokens (scheme, separator, rest) so that *)
(* str.startswith is a prefix test that can fail.                          *)
(***************************************************************************)
ContentUrls ==
    { <<"https", "://", "a.test">>,
      <<"about", ":", "blank">>,
      <<"chrome-error", "://", "chromewebdata">> }

SpecialUrls ==
    { <<"devtools", "://", "devtools">>,
      <<"chrome", "://", "settings">>,
      <<"chrome-extension", "://", "abc">>,
      <<"moz-extension", "://", "abc">> }

\* What a page answers when it is asked:
\*   "ok"          every query succeeds
\*   "closed"      is_closed() is true when _get_active_page enumerates
\*   "closedLater" is_closed() is false at enumeration, true at selection
\*   "titleFails"  page.title() raises
\*   "evalFails"   page.evaluate() raises
PageStatus == {"ok", "closed", "closedLater", "titleFails", "evalFails"}

NoPage ==
    [id |-> 0, st |-> "ok", url |-> <<>>, hasFocus |-> FALSE,
     visibilityState |-> "hidden", timestamp |-> 0]

MkPage(i, s, u, f, v, t) ==
    [id |-> i, st |-> s, url |-> u, hasFocus |-> f,
     visibilityState |-> v, timestamp |-> t]

StartsWith(s, prefix) ==
    /\ Len(s) >= Len(prefix)
    /\ SubSeq(s, 1, Len(prefix)) = prefix

SpecialPrefixes ==
    { <<"devtools", "://">>, <<"chrome", "://">>,
      <<"chrome-extension", "://">>, <<"moz-extension", "://">> }

IsSpecialUrl(u) == \E p \in SpecialPrefixes : StartsWith(u, p)

ClosedAtEnumeration(p) == p.st = "closed"
ClosedAtSelection(p) == p.st \in {"closed", "closedLater"}

(***************************************************************************)
(* list.sort(key=..., reverse=True): CPython reverses the list, sorts it   *)
(* ascending with a stable sort, and reverses the result.                  *)
(***************************************************************************)
B2N(b) == IF b THEN 1 ELSE 0

SortKey(x) ==
    <<B2N(x.has_focus), B2N(x.visibility_state = "visible"), x.timestamp>>

KeyLessTimestampFirst(a, b) ==
    LET ka == SortKey(a)
        kb == SortKey(b)
    IN  \/ ka[3] < kb[3]
        \/ ka[3] = kb[3] /\ ka[2] < kb[2]
        \/ ka[3] = kb[3] /\ ka[2] = kb[2] /\ ka[1] < kb[1]

KeyLess(a, b) ==
    LET ka == SortKey(a)
        kb == SortKey(b)
    IN  \/ ka[1] < kb[1]
        \/ ka[1] = kb[1] /\ ka[2] < kb[2]
        \/ ka[1] = kb[1] /\ ka[2] = kb[2] /\ ka[3] < kb[3]

RECURSIVE Reverse(_)
Reverse(s) == IF s = <<>> THEN <<>> ELSE Append(Reverse(Tail(s)), Head(s))

RECURSIVE InsertStable(_, _)
InsertStable(sorted, x) ==
    IF sorted = <<>> THEN <<x>>
    ELSE IF KeyLess(x, Head(sorted)) THEN <<x>> \o sorted
    ELSE <<Head(sorted)>> \o InsertStable(Tail(sorted), x)

RECURSIVE StableSortAscending(_)
StableSortAscending(s) ==
    IF s = <<>> THEN <<>>
    ELSE InsertStable(StableSortAscending(SubSeq(s, 1, Len(s) - 1)), s[Len(s)])

SortReverseNoStability(s) == Reverse(StableSortAscending(s))

SortReverse(s) == Reverse(StableSortAscending(Reverse(s)))

(***************************************************************************)
(* _find_most_recent_active_page                                           *)
(***************************************************************************)
\* One iteration of the collection loop: the entries (zero or one) that the
\* page adds to page_info.
PageInfoOfTitleDefault(p) ==
    IF ClosedAtSelection(p) THEN <<>>
    ELSE IF IsSpecialUrl(p.url) THEN <<>>
    ELSE IF p.st = "evalFails" THEN <<>>
    ELSE << [page |-> p, url |-> p.url,
             title |-> IF p.st = "titleFails" THEN "Unknown" ELSE "title",
             has_focus |-> p.hasFocus,
             visibility_state |-> p.visibilityState,
             timestamp |-> p.timestamp] >>

PageInfoOfEvalDefault(p) ==
    IF ClosedAtSelection(p) THEN <<>>
    ELSE IF IsSpecialUrl(p.url) THEN <<>>
    ELSE IF p.st = "titleFails" THEN <<>>
    ELSE << [page |-> p, url |-> p.url, title |-> "title",
             has_focus |-> IF p.st = "evalFails" THEN FALSE ELSE p.hasFocus,
             visibility_state |->
                 IF p.st = "evalFails" THEN "hidden" ELSE p.visibilityState,
             timestamp |-> IF p.st = "evalFails" THEN 0 ELSE p.timestamp] >>

PageInfoOf(p) ==
    IF ClosedAtSelection(p) THEN <<>>               \* continue
    ELSE IF IsSpecialUrl(p.url) THEN <<>>           \* continue
    ELSE IF p.st = "titleFails" THEN <<>>           \* title() raises: except, continue
    ELSE IF p.st = "evalFails" THEN <<>>            \* evaluate() raises: except, continue
    ELSE << [page |-> p, url |-> p.url, title |-> "title",
             has_focus |-> p.hasFocus,
             visibility_state |-> p.visibilityState,
             timestamp |-> p.timestamp] >>

RECURSIVE CollectPageInfo(_)
CollectPageInfo(ps) ==
    IF ps = <<>> THEN <<>>
    ELSE PageInfoOf(Head(ps)) \o CollectPageInfo(Tail(ps))

FindMostRecentActivePage(ps, fault) ==
    LET info == CollectPageInfo(ps)
    IN  IF fault THEN NoPage                       \* outer except: return None
        ELSE IF info = <<>> THEN NoPage            \* if not page_info: return None
        ELSE SortReverse(info)[1].page

(***************************************************************************)
(* _get_active_page, from browser.contexts to the choice of active_page    *)
(***************************************************************************)
\* The inner loop over context.pages
RECURSIVE EligibleOfNoUrlFilter(_)
EligibleOfNoUrlFilter(ps) ==
    IF ps = <<>> THEN <<>>
    ELSE IF ClosedAtEnumeration(Head(ps)) THEN EligibleOfNoUrlFilter(Tail(ps))
    ELSE <<Head(ps)>> \o EligibleOfNoUrlFilter(Tail(ps))

RECURSIVE EligibleOf(_)
EligibleOf(ps) ==
    IF ps = <<>> THEN <<>>
    ELSE IF ClosedAtEnumeration(Head(ps)) THEN EligibleOf(Tail(ps))
    ELSE IF IsSpecialUrl(Head(ps).url) THEN EligibleOf(Tail(ps))   \* continue
    ELSE <<Head(ps)>> \o EligibleOf(Tail(ps))                      \* append

\* The outer loop over contexts
RECURSIVE CollectAllPages(_)
CollectAllPages(ctxs) ==
    IF ctxs = <<>> THEN <<>>
    ELSE EligibleOf(Head(ctxs)) \o CollectAllPages(Tail(ctxs))

RECURSIVE CountPages(_)
CountPages(ctxs) ==
    IF ctxs = <<>> THEN 0 ELSE Len(Head(ctxs)) + CountPages(Tail(ctxs))

\* browser.new_page(): a fresh tab, after every existing one
NewPage(ctxs) ==
    MkPage(CountPages(ctxs) + 1, "ok", <<"about", ":", "blank">>,
           FALSE, "visible", 0)

\* The error raised with the connection left open
RaisedWithoutClose(closes, newPages, ap) ==
    [outcome |-> "raise", error |-> "BrowserRuntimeError", closes |-> 0,
     new_pages |-> newPages, all_pages |-> ap, active_page |-> NoPage]

Raised(closes, newPages, ap) ==
    [outcome |-> "raise", error |-> "BrowserRuntimeError", closes |-> closes,
     new_pages |-> newPages, all_pages |-> ap, active_page |-> NoPage]

Resolved(page, newPages, ap) ==
    [outcome |-> "page", error |-> "none", closes |-> 0,
     new_pages |-> newPages, all_pages |-> ap, active_page |-> page]

\* if not active_page: active_page = all_pages[0]
PickActiveNoFallback(ap, fault) == FindMostRecentActivePage(ap, fault)

PickActive(ap, fault) ==
    LET found == FindMostRecentActivePage(ap, fault)
    IN  IF found = NoPage THEN ap[1] ELSE found

\* The policy for an empty all_pages
WhenNoPagesAlwaysCreate(ctxs, cnp, npf) ==
    IF npf THEN Raised(1, 1, <<>>)
    ELSE Resolved(NewPage(ctxs), 1, <<NewPage(ctxs)>>)

WhenNoPages(ctxs, cnp, npf) ==
    IF cnp
    THEN IF npf
         THEN Raised(1, 1, <<>>)        \* new_page raises: handler closes
         ELSE Resolved(NewPage(ctxs), 1, <<NewPage(ctxs)>>)
    ELSE Raised(1 + 1, 0, <<>>)         \* close, raise; the handler closes again

\* An empty browser.contexts treated like an empty all_pages
ResolvePageNoContextCheck(ctxs, cnp, npf, fault) ==
    LET ap == CollectAllPages(ctxs)
    IN  IF ap # <<>>
        THEN Resolved(PickActive(ap, fault), 0, ap)
        ELSE WhenNoPages(ctxs, cnp, npf)

\* cnp: create_new_page; npf: browser.new_page() raises; fault: see rankFault
ResolvePage(ctxs, cnp, npf, fault) ==
    LET ap == CollectAllPages(ctxs)
    IN  IF ctxs = <<>>
        THEN Raised(1 + 1, 0, <<>>)     \* close, raise; the handler closes again
        ELSE IF ap # <<>>
        THEN Resolved(PickActive(ap, fault), 0, ap)
        ELSE WhenNoPages(ctxs, cnp, npf)

(***************************************************************************)
(* _page_wait_for_load_state                                               *)
(***************************************************************************)
LoadStates == {"networkidle", "domcontentloaded", "load"}

\* What one page.wait_for_load_state call does:
\*   "ok"       the state was reached within the timeout
\*   "timeout"  PlaywrightTimeoutError
\*   "error"    any other exception (the page was closed during the wait)
WaitOutcomes == {"ok", "timeout", "error"}

FallbackTimeout == 5000
\* page.wait_for_load_state without a timeout argument: Playwright's default
PlaywrightTimeout == 30000
DefaultTimeout == 7000

WaitCallOf(state, timeout, outcome) ==
    [state |-> state, timeout |-> timeout, outcome |-> outcome]

Returned(result, waits) == [raised |-> FALSE, result |-> result, waits |-> waits]
RaisedBy(waits) == [raised |-> TRUE, result |-> "none", waits |-> waits]

\* o1: the outcome of the wait for the requested state; o2: the outcome of
\* the wait for 'domcontentloaded' that follows a networkidle timeout.
PageWaitNoFallback(state, timeout, o1, o2) ==
    LET first == WaitCallOf(state, timeout, o1)
    IN  IF o1 = "ok" THEN Returned(state, <<first>>)
        ELSE IF o1 = "error" THEN RaisedBy(<<first>>)
        ELSE Returned("skipped", <<first>>)

\* The fallback wait applied to every requested state
PageWaitAlwaysFallback(state, timeout, o1, o2) ==
    LET first == WaitCallOf(state, timeout, o1)
        second == WaitCallOf("domcontentloaded", FallbackTimeout, o2)
    IN  IF o1 = "ok" THEN Returned(state, <<first>>)
        ELSE IF o1 = "error" THEN RaisedBy(<<first>>)
        ELSE IF o2 = "ok" THEN Returned("domcontentloaded", <<first, second>>)
        ELSE IF o2 = "error" THEN RaisedBy(<<first, second>>)
        ELSE Returned("skipped", <<first, second>>)

PageWaitForLoadState(state, timeout, o1, o2) ==
    LET first == WaitCallOf(state, timeout, o1)
        second == WaitCallOf("domcontentloaded", FallbackTimeout, o2)
    IN  IF o1 = "ok" THEN Returned(state, <<first>>)
        ELSE IF o1 = "error" THEN RaisedBy(<<first>>)       \* not caught
        ELSE IF state = "networkidle"
        THEN IF o2 = "ok" THEN Returned("domcontentloaded", <<first, second>>)
             ELSE IF o2 = "error" THEN RaisedBy(<<first, second>>)
             ELSE Returned("skipped", <<first, second>>)
        ELSE Returned("skipped", <<first>>)

(***************************************************************************)
(* SpecSelect: _find_most_recent_active_page applied to every list of 1 to *)
(* MaxPages pages that passed the scan of _get_active_page.  Page i of the *)
(* list has id i (the enumeration order).                                  *)
(***************************************************************************)
VisibilityStates == {"visible", "hidden"}

SelectPages(i) ==
    { MkPage(i, "ok", <<"https", "://", "a.test">>, f, v, t) :
        f \in BOOLEAN, v \in VisibilityStates, t \in 0..MaxTs }
    \cup
    { MkPage(i, "titleFails", <<"https", "://", "a.test">>, f, v, 0) :
        f \in BOOLEAN, v \in VisibilityStates }
    \cup
    { MkPage(i, s, <<"https", "://", "a.test">>, FALSE, "hidden", 0) :
        s \in {"closedLater", "evalFails"} }

ScanIdle ==
    /\ contexts = <<>>
    /\ create_new_page = TRUE
    /\ newPageFails = FALSE
    /\ scanPc = "idle"
    /\ all_pages = <<>>
    /\ active_page = NoPage
    /\ scanError = "none"
    /\ scanCloses = 0
    /\ scanNewPages = 0

PyNone == "<None>"

NoOutcome == [kind |-> "none", error |-> "none", msg |-> <<>>]

OpIdle ==
    /\ remote = FALSE
    /\ endpointDown = FALSE
    /\ argFault = "none"
    /\ op = "none"
    /\ url = PyNone
    /\ opPc = "idle"
    /\ navUrl = PyNone
    /\ connected = FALSE
    /\ sessionStarted = FALSE
    /\ opPage = NoPage
    /\ calls = <<>>
    /\ opOutcome = NoOutcome

WaitIdle ==
    /\ wPage = [dom |-> 0, load |-> 0, idle |-> 0, close |-> 0]
    /\ wState = "domcontentloaded"
    /\ wTimeout = 0
    /\ wPc = "idle"
    /\ wResult = "none"
    /\ wWaits = <<>>

SelectIdle ==
    /\ pages = <<>>
    /\ rankFault = FALSE
    /\ selPc = "idle"
    /\ selected = NoPage
    /\ page_info = <<>>

AgentIdle ==
    /\ aMaxSteps = <<>>
    /\ aEnv = <<>>
    /\ aAgent = [kind |-> "returns", at |-> 0]
    /\ aPc = "idle"
    /\ aTimeout = 0
    /\ aOutcome = NoOutcome

ConcOps == 1..MaxOps

ConcIdle ==
    /\ cPc = [o \in ConcOps |-> "idle"]
    /\ cBrowser = [o \in ConcOps |-> 0]
    /\ cPage = [o \in ConcOps |-> 0]
    /\ cOpen = {}
    /\ cOwner = <<>>
    /\ cUses = {}
    /\ cFocus = 1

McpIdle ==
    /\ mTool = "none"
    /\ mTask = <<>>
    /\ mPc = "idle"
    /\ mCalls = <<>>
    /\ mResult = [type |-> "none", text |-> "none"]

\* The root logger ('') and the loggers named in setup_logger_for_mcp_server
LoggerNames ==
    {"", "httpx", "selenium", "playwright", "urllib3", "asyncio", "fastmcp",
     "FastMCP.fastmcp.server.server", "browser_use"}

LogIdle ==
    /\ logger_set_up = FALSE
    /\ lHandlers = [n \in LoggerNames |-> <<>>]
    /\ lPropagate = [n \in LoggerNames |-> TRUE]
    /\ lCalls = 0
    /\ lBefore = <<>>

LaunchIdle ==
    /\ lnEnv = <<>>
    /\ lnPc = "idle"
    /\ lnSpawned = <<>>
    /\ lnReport = "none"

\* A tab as the ranking sees it; lastUsed is when the user last acted on it
NoTab ==
    [id |-> 0, st |-> "ok", hasFocus |-> FALSE, visibilityState |-> "hidden",
     lastUsed |-> 0]

RankIdle ==
    /\ rkTabs = <<>>
    /\ rkPc = "idle"
    /\ rkNext = 1
    /\ rkClock = 0
    /\ rkAsked = <<>>
    /\ rkInfo = <<>>
    /\ rkSelected = NoTab

CaptureIdle ==
    /\ fClock = 0
    /\ fFiles = {}
    /\ fReturned = <<>>

GridIdle ==
    /\ gSessions = {}
    /\ gCreated = 0
    /\ gQuit = 0
    /\ gDone = <<>>

ConfigIdle ==
    /\ cfEnvBot = PyNone
    /\ cfEnvMcp = PyNone
    /\ cfPc = "env"
    /\ cfBotRemote = FALSE
    /\ cfMcpRemote = FALSE
    /\ cfLaunch = "none"
    /\ cfConnect = "none"

ExtraIdle ==
    /\ AgentIdle
    /\ ConcIdle
    /\ McpIdle
    /\ LogIdle
    /\ LaunchIdle
    /\ RankIdle
    /\ CaptureIdle
    /\ GridIdle
    /\ ConfigIdle

InitSelect ==
    /\ pages = <<>>
    /\ rankFault = FALSE
    /\ selPc = "setup"
    /\ selected = NoPage
    /\ page_info = <<>>
    /\ ScanIdle
    /\ WaitIdle
    /\ OpIdle
    /\ ExtraIdle

\* The browser before the call: one more page passed the scan.
SelectAddPage ==
    /\ selPc = "setup"
    /\ Len(pages) < MaxPages
    /\ \E p \in SelectPages(Len(pages) + 1) : pages' = Append(pages, p)
    /\ UNCHANGED <<rankFault, selPc, selected, page_info, notSel>>

\* The whole call: the collection loop, the sort and the return.  It is only
\* called with a non-empty list (if all_pages:).
FindCall ==
    /\ selPc = "setup"
    /\ pages # <<>>
    /\ \E fault \in BOOLEAN :
        /\ rankFault' = fault
        /\ selected' = FindMostRecentActivePage(pages, fault)
    /\ page_info' = CollectPageInfo(pages)
    /\ selPc' = "returned"
    /\ UNCHANGED <<pages, notSel>>

NextSelect == SelectAddPage \/ FindCall

SpecSelect == InitSelect /\ [][NextSelect]_vars

(***************************************************************************)
(* The public operations                                                   *)
(***************************************************************************)
ActivePageOps ==
    {"run_script", "run_python_script", "get_page_source",
     "get_visible_screenshot", "get_full_screenshot", "get_current_url",
     "super_reload", "request", "run_lighthouse"}

Ops == ActivePageOps \cup {"run_task"}

\* Arguments: None, the empty string, a sentinel in capitals, a real URL
UrlArgs == {PyNone, "", "NONE", "https://a.test/"}

\* str.lower() on the strings of UrlArgs
Lower(str) ==
    CASE str = "NONE" -> "none"
      [] OTHER -> str

\* Python truth value of an Optional[str]
Truthy(str) == str # PyNone /\ str # ""

SentinelUrls == {"null", "none", "undefined", ""}

\* if url and url.lower() in {...}: url = None
NormaliseUrl(u) ==
    IF Truthy(u) /\ Lower(u) \in SentinelUrls THEN PyNone ELSE u

\* if not script / if not python_script_text, before anything else
ChecksInputFirst(o) == o \in {"run_script", "run_python_script"}

\* await _check_chrome_running() in the operation itself
HasPreProbe(o) ==
    o \in {"super_reload", "run_script", "run_python_script", "request",
           "run_lighthouse"}

\* the create_new_page argument of the _get_active_page call
CreateNewPageArg(o) == o \notin {"get_current_url", "run_lighthouse"}

\* the url argument of the _get_active_page call
UrlArgOf(o, u) == IF o \in {"get_current_url", "run_lighthouse"} THEN PyNone ELSE u

\* await _page_wait_for_load_state(page) before the unit of work
WaitsBeforeBody(o) ==
    o \in {"run_script", "run_python_script", "get_page_source",
           "get_visible_screenshot", "get_full_screenshot"}

\* that wait is inside the try block of the operation
WaitInsideTry(o) == o # "run_python_script"

\* except Exception: raise BrowserBotTaskFailedError
WrapsBodyErrors(o) ==
    o \in {"run_script", "run_python_script", "get_current_url", "super_reload"}

\* finally: await browser.close() (run_lighthouse closes right after page.url)
ClosesAfterBody(o) == o \in ActivePageOps \ {"request"}

\* An exception message is the sequence of its parts: fixed texts and the
\* values formatted into it.
RaiseMsg(error, parts) == [kind |-> "raise", error |-> error, msg |-> parts]
Raise(error, msg) == RaiseMsg(error, <<msg>>)
Return == [kind |-> "return", error |-> "none", msg |-> <<>>]

\* _check_chrome_running: the calls it makes and how it ends.
\* answer: what the GET /json/version does.
\*   "200"      a response with status 200
\*   "non200"   a response with another status
\*   "refused"  httpx.ConnectError
\*   "timeout"  httpx.TimeoutException
\*   "other"    another exception (ProbeException)
ProbeAnswers == {"200", "non200", "refused", "timeout", "other"}

\* What the endpoint can answer to one request
ProbeAnswersWhen(down) == IF down THEN {"refused"} ELSE ProbeAnswers

\* An exception that is neither ConnectError nor TimeoutException
ProbeException == [class |-> "ReadError", text |-> "connection reset"]

\* The message texts of _check_chrome_running
StartChromeText == "Chrome is not running: start Chrome with the debug port"
CheckHealthText == "connection timed out: check that Chrome is running normally"
UnexpectedText == "unexpected error while checking Chrome"

\* The entry of the call log that records what the probe request got
ProbeReply(answer) == "probe:" \o answer

\* Every failure reported with the start-Chrome message
CheckChromeRunningUnclassified(isRemote, answer) ==
    IF isRemote THEN [calls |-> <<>>, result |-> Return]
    ELSE [calls |-> <<"probe", ProbeReply(answer)>>,
          result |->
            IF answer = "200" THEN Return
            ELSE RaiseMsg("BrowserRuntimeError", <<StartChromeText>>)]

\* The probe request sent in remote mode too
CheckChromeRunningAlwaysProbes(isRemote, answer) ==
    [calls |-> <<"probe", ProbeReply(answer)>>,
     result |->
       CASE answer = "200" -> Return
         [] answer = "refused" ->
              RaiseMsg("BrowserRuntimeError", <<StartChromeText>>)
         [] answer = "timeout" ->
              RaiseMsg("BrowserRuntimeError", <<CheckHealthText>>)
         [] answer = "non200" ->
              RaiseMsg("BrowserRuntimeError",
                       <<UnexpectedText, "BrowserRuntimeError", StartChromeText>>)
         [] OTHER ->
              RaiseMsg("BrowserRuntimeError",
                       <<UnexpectedText, ProbeException.class,
                         ProbeException.text>>)]

\* A probe that takes every HTTP response for a running Chrome
CheckChromeRunningAnyStatus(isRemote, answer) ==
    IF isRemote THEN [calls |-> <<>>, result |-> Return]
    ELSE [calls |-> <<"probe", ProbeReply(answer)>>,
          result |->
            CASE answer \in {"200", "non200"} -> Return
              [] answer = "refused" ->
                   RaiseMsg("BrowserRuntimeError", <<StartChromeText>>)
              [] answer = "timeout" ->
                   RaiseMsg("BrowserRuntimeError", <<CheckHealthText>>)
              [] OTHER ->
                   RaiseMsg("BrowserRuntimeError",
                            <<UnexpectedText, ProbeException.class,
                              ProbeException.text>>)]

CheckChromeRunning(isRemote, answer) ==
    IF isRemote THEN [calls |-> <<>>, result |-> Return]
    ELSE [calls |-> <<"probe", ProbeReply(answer)>>,
          result |->
            CASE answer = "200" -> Return
              [] answer = "refused" ->
                   RaiseMsg("BrowserRuntimeError", <<StartChromeText>>)
              [] answer = "timeout" ->
                   RaiseMsg("BrowserRuntimeError", <<CheckHealthText>>)
              \* the BrowserRuntimeError raised in the try block is caught by
              \* except Exception and wrapped again
              [] answer = "non200" ->
                   RaiseMsg("BrowserRuntimeError",
                            <<UnexpectedText, "BrowserRuntimeError", StartChromeText>>)
              [] OTHER ->
                   RaiseMsg("BrowserRuntimeError",
                            <<UnexpectedText, ProbeException.class,
                              ProbeException.text>>)]

RECURSIVE Repeat(_, _)
Repeat(x, n) == IF n = 0 THEN <<>> ELSE <<x>> \o Repeat(x, n - 1)

RECURSIVE Count(_, _)
Count(s, x) ==
    IF s = <<>> THEN 0
    ELSE (IF Head(s) = x THEN 1 ELSE 0) + Count(Tail(s), x)

\* The entries of the call log for the page.wait_for_load_state calls of
\* one load-state wait; a wait that timed out is followed by "wait:timeout"
RECURSIVE WaitLog(_)
WaitLog(waits) ==
    IF waits = <<>> THEN <<>>
    ELSE (IF Head(waits).outcome = "timeout" THEN <<"wait", "wait:timeout">>
          ELSE <<"wait">>) \o WaitLog(Tail(waits))

\* The browsers an operation may connect to
PageA == MkPage(1, "ok", <<"https", "://", "a.test">>, FALSE, "visible", 0)
PageB == MkPage(2, "ok", <<"https", "://", "a.test">>, TRUE, "visible", 0)
PageDev == MkPage(1, "ok", <<"devtools", "://", "devtools">>, TRUE, "visible", 0)
PageBad == MkPage(1, "evalFails", <<"https", "://", "a.test">>, FALSE, "hidden", 0)
PageNoTitle == MkPage(1, "titleFails", <<"https", "://", "a.test">>, TRUE, "visible", 0)

OpBrowsers ==
    { <<>>, << <<>> >>, << <<PageA>> >>, << <<PageDev>> >>,
      << <<PageA, PageB>> >>, << <<PageBad>>, <<PageB>> >>,
      << <<PageNoTitle>> >> }

InitOp ==
    /\ SelectIdle
    /\ ScanIdle
    /\ WaitIdle
    /\ ExtraIdle
    /\ remote \in BOOLEAN
    /\ endpointDown \in BOOLEAN
    /\ argFault = "none"
    /\ op = "none"
    /\ url = PyNone
    /\ opPc = "idle"
    /\ navUrl = PyNone
    /\ connected = FALSE
    /\ sessionStarted = FALSE
    /\ opPage = NoPage
    /\ calls = <<>>
    /\ opOutcome = NoOutcome

Finish(result) ==
    /\ opPc' = "done"
    /\ opOutcome' = result

\* What can be wrong with the arguments of a call:
\*   "empty"         script / python_script_text / task is the empty string
\*   "bad_method"    request: method is not one of the seven, in any case
\*   "bad_category"  run_lighthouse: a category outside the valid set
\*   "bad_device"    run_lighthouse: device is neither desktop nor mobile
ArgFaults(o) ==
    {"none"} \cup
    (CASE o \in {"run_script", "run_python_script", "run_task"} -> {"empty"}
       [] o = "request" -> {"bad_method"}
       [] o = "run_lighthouse" -> {"bad_category", "bad_device"}
       [] OTHER -> {})

\* The call of a public operation, up to its first await.
\* npxMissing: shutil.which('npx') is None.
OpCall ==
    /\ opPc = "idle"
    /\ \E o \in Ops, u \in UrlArgs, npxMissing \in BOOLEAN :
       \E a \in ArgFaults(o) :
        /\ op' = o
        /\ url' = u
        /\ argFault' = a
        /\ IF ChecksInputFirst(o) /\ a = "empty"
           THEN Finish(Raise("BrowserBotTaskAbortedError", "empty_input"))
           ELSE IF o = "run_lighthouse" /\ npxMissing
           THEN Finish(Raise("BrowserRuntimeError", "npx"))
           ELSE /\ opPc' = IF o = "run_task" THEN "task_connect"
                           ELSE IF o = "run_lighthouse" /\ Truthy(u) THEN "audit"
                           ELSE IF HasPreProbe(o) THEN "pre_probe"
                           ELSE "get_connection"
                /\ UNCHANGED opOutcome
    /\ UNCHANGED <<remote, endpointDown, navUrl, connected, sessionStarted,
                   opPage,
                   calls, notOp>>

\* await _check_chrome_running() in the operation; request validates its
\* method after it.
PreProbe ==
    /\ opPc = "pre_probe"
    /\ \E answer \in ProbeAnswersWhen(endpointDown) :
        LET r == CheckChromeRunning(remote, answer)
        IN  /\ calls' = calls \o r.calls
            /\ IF r.result.kind = "raise" THEN Finish(r.result)
               ELSE IF op = "request" /\ argFault = "bad_method"
               THEN Finish(Raise("BrowserBotTaskAbortedError", "bad_method"))
               ELSE opPc' = "get_connection" /\ UNCHANGED opOutcome
    /\ UNCHANGED <<remote, endpointDown, argFault, op, url, navUrl,
                   connected, sessionStarted, opPage, notOp>>

\* _get_active_page: the url normalisation, then _get_browser_connection up
\* to connect_over_cdp: the probe (local) or the grid session (remote).
\* Exceptions leave _get_active_page as they are: the try starts later.
GetConnection ==
    /\ opPc = "get_connection"
    /\ navUrl' = NormaliseUrl(UrlArgOf(op, url))
    /\ IF remote
       THEN \E grid \in {"ok", "session_fails", "no_se_cdp"} :
              /\ calls' = Append(calls, "grid_session")
              /\ CASE grid = "ok" -> opPc' = "connect_cdp" /\ UNCHANGED opOutcome
                   [] grid = "session_fails" ->
                        Finish(Raise("WebDriverException", "grid"))
                   [] OTHER -> Finish(Raise("KeyError", "se:cdp"))
       ELSE \E answer \in ProbeAnswersWhen(endpointDown) :
              LET r == CheckChromeRunning(remote, answer)
              IN  /\ calls' = calls \o r.calls
                  /\ IF r.result.kind = "raise" THEN Finish(r.result)
                     ELSE opPc' = "connect_cdp" /\ UNCHANGED opOutcome
    /\ UNCHANGED <<remote, endpointDown, argFault, op, url, connected,
                   sessionStarted, opPage, notOp>>

\* The entry of the call log for connect_over_cdp, with its argument
ConnectCall(isRemote) ==
    IF isRemote THEN "connect_over_cdp(cdp_url)"
    ELSE "connect_over_cdp(CHROME_DEBUG_URL)"

\* Whether a connection to the endpoint can succeed (TRUE) or fail (FALSE)
ConnectResults(isRemote, down) ==
    IF ~isRemote /\ down THEN {FALSE} ELSE BOOLEAN

\* await playwright_instance.chromium.connect_over_cdp(...)
ConnectOverCdp ==
    /\ opPc = "connect_cdp"
    /\ calls' = Append(calls, ConnectCall(remote))
    /\ \E ok \in ConnectResults(remote, endpointDown) :
        IF ok
        THEN connected' = TRUE /\ opPc' = "resolve" /\ UNCHANGED opOutcome
        ELSE UNCHANGED connected /\ Finish(Raise("PlaywrightError", "connect"))
    /\ UNCHANGED <<remote, endpointDown, argFault, op, url, navUrl,
                   sessionStarted, opPage, notOp>>

\* _get_active_page from browser.contexts to the choice of active_page.
\* contexts becomes the browser the connection found.
ResolveActivePage ==
    /\ opPc = "resolve"
    /\ \E b \in OpBrowsers, npf \in BOOLEAN, fault \in BOOLEAN :
        LET r == ResolvePage(b, CreateNewPageArg(op), npf, fault)
        IN  /\ contexts' = b
            /\ calls' = calls \o <<"contexts">> \o Repeat("new_page", r.new_pages)
                          \o Repeat("close", r.closes)
            /\ opPage' = r.active_page
            /\ IF r.outcome = "raise"
               THEN Finish(Raise(r.error, "resolve"))
               ELSE /\ opPc' = IF Truthy(navUrl) THEN "goto" ELSE "page_logging"
                    /\ UNCHANGED opOutcome
    /\ UNCHANGED <<remote, endpointDown, argFault, op, url, navUrl,
                   connected, sessionStarted, opBrowserFrame>>

\* await active_page.goto(url); an exception goes to the handler of
\* _get_active_page: close, raise BrowserRuntimeError.
Goto ==
    /\ opPc = "goto"
    /\ \E ok \in BOOLEAN :
        IF ok
        THEN /\ calls' = Append(calls, "goto")
             /\ opPc' = "nav_wait"
             /\ UNCHANGED opOutcome
        ELSE /\ calls' = calls \o <<"goto", "close">>
             /\ Finish(Raise("BrowserRuntimeError", "resolve"))
    /\ UNCHANGED <<remote, endpointDown, argFault, op, url, navUrl,
                   connected, sessionStarted, opPage, notOp>>

\* The page returned right after goto, without the load-state wait
NavWaitSkipped ==
    /\ opPc = "nav_wait"
    /\ opPc' = "page_logging"
    /\ UNCHANGED <<remote, endpointDown, argFault, op, url, navUrl, connected,
                   sessionStarted, opPage, calls, opOutcome, notOp>>

\* await _page_wait_for_load_state(active_page) after the navigation
NavWait ==
    /\ opPc = "nav_wait"
    /\ \E o1 \in WaitOutcomes :
        LET r == PageWaitForLoadState("domcontentloaded", DefaultTimeout, o1, o1)
        IN  IF r.raised
            THEN /\ calls' = calls \o WaitLog(r.waits) \o <<"close">>
                 /\ Finish(Raise("BrowserRuntimeError", "resolve"))
            ELSE /\ calls' = calls \o WaitLog(r.waits)
                 /\ opPc' = "page_logging"
                 /\ UNCHANGED opOutcome
    /\ UNCHANGED <<remote, endpointDown, argFault, op, url, navUrl,
                   connected, sessionStarted, opPage, notOp>>

\* An exception of page.on leaving the function
SetupPageLoggingOfRaises(installFails) ==
    [calls |-> IF installFails THEN <<"page.on", "page.on:failed">>
               ELSE <<"page.on">>,
     raised |-> installFails]

\* _setup_page_logging: the calls it makes and whether it raises.
\* installFails: page.on raises.
SetupPageLoggingOf(installFails) ==
    [calls |-> IF installFails THEN <<"page.on", "page.on:failed">>
               ELSE <<"page.on">>,
     raised |-> FALSE]                  \* except Exception: logger.warning

\* _setup_page_logging(active_page); return active_page, browser
SetupPageLogging ==
    /\ opPc = "page_logging"
    /\ \E installFails \in BOOLEAN :
        LET r == SetupPageLoggingOf(installFails)
        IN  IF r.raised
            THEN /\ calls' = calls \o r.calls \o <<"close">>
                 /\ Finish(Raise("BrowserRuntimeError", "page_logging"))
            ELSE /\ calls' = calls \o r.calls
                 /\ opPc' = IF WaitsBeforeBody(op) THEN "body_wait"
                            ELSE IF op = "super_reload" THEN "reload_goto"
                            ELSE "body"
                 /\ UNCHANGED opOutcome
    /\ UNCHANGED <<remote, endpointDown, argFault, op, url, navUrl,
                   connected, sessionStarted, opPage, notOp>>

\* How an exception of the unit of work leaves the operation
BodyError(o) ==
    IF WrapsBodyErrors(o) THEN Raise("BrowserBotTaskFailedError", "body")
    ELSE Raise("PlaywrightError", "body")

AfterBody(o) == IF ClosesAfterBody(o) THEN <<"close">> ELSE <<>>

\* await _page_wait_for_load_state(page) before the unit of work
BodyWait ==
    /\ opPc = "body_wait"
    /\ \E o1 \in WaitOutcomes :
        LET r == PageWaitForLoadState("domcontentloaded", DefaultTimeout, o1, o1)
        IN  IF r.raised
            THEN IF WaitInsideTry(op)
                 THEN /\ calls' = calls \o <<"wait">> \o AfterBody(op)
                      /\ Finish(BodyError(op))
                 ELSE \* run_python_script: neither except nor finally applies
                      /\ calls' = calls \o <<"wait">>
                      /\ Finish(Raise("PlaywrightError", "wait"))
            ELSE /\ calls' = calls \o WaitLog(r.waits)
                 /\ opPc' = "body"
                 /\ UNCHANGED opOutcome
    /\ UNCHANGED <<remote, endpointDown, argFault, op, url, navUrl,
                   connected, sessionStarted, opPage, notOp>>

\* A super_reload that goes to every url it is given a second time
ReloadNavigatesAlways(u, differs) == Truthy(u)

\* if url and page.url != url.  u is the argument as given; differs:
\* page.url is not string-equal to it.
ReloadNavigates(u, differs) == Truthy(u) /\ differs

\* super_reload: if url and page.url != url: goto(url) and wait.  The
\* comparison is made when url is truthy and is written to the call log.
\* When the wrapper dropped a sentinel such as 'NONE' it did not navigate,
\* so page.url differs, and the goto is a navigation to an invalid URL.
ReloadGoto ==
    /\ opPc = "reload_goto"
    /\ \E redirected \in BOOLEAN, nav \in {"ok", "goto_raises", "wait_raises"} :
        LET differs == redirected \/ ~Truthy(navUrl)
            compared ==
                IF ~Truthy(url) THEN <<>>
                ELSE IF differs THEN <<"page.url:differs">>
                ELSE <<"page.url:same">>
        IN  IF ReloadNavigates(url, differs)
            THEN IF nav = "ok" /\ Truthy(navUrl)
                 THEN /\ calls' = calls \o compared \o <<"goto", "wait">>
                      /\ opPc' = "body"
                      /\ UNCHANGED opOutcome
                 ELSE IF nav = "wait_raises" /\ Truthy(navUrl)
                 THEN /\ calls' = calls \o compared \o <<"goto", "wait">>
                                        \o AfterBody(op)
                      /\ Finish(BodyError(op))
                 ELSE /\ calls' = calls \o compared \o <<"goto">>
                                        \o AfterBody(op)
                      /\ Finish(BodyError(op))
            ELSE /\ calls' = calls \o compared
                 /\ opPc' = "body"
                 /\ UNCHANGED opOutcome
    /\ UNCHANGED <<remote, endpointDown, argFault, op, url, navUrl,
                   connected, sessionStarted, opPage, notOp>>

\* The values of the mode argument of super_reload: the three documented
\* ones, one of them in another case, and an unknown one
ReloadModes == {"cdp", "javascript", "keyboard", "JavaScript", "hard"}

\* The entry of the call log that records the mode argument
ModeEntry(mode) == "mode=" \o mode

\* A dispatch that reloads for the three documented modes only
ReloadMechanismStrict(mode) ==
    IF mode = "javascript" THEN "reload:javascript"
    ELSE IF mode = "keyboard" THEN "reload:keyboard"
    ELSE IF mode = "cdp" THEN "reload:cdp"
    ELSE "reload:none"

\* if mode == 'javascript': ... elif mode == 'keyboard': ... else: cdp
\*   "reload:javascript"  page.evaluate(location.reload(true))
\*   "reload:keyboard"    keyboard Meta/Control + Shift + R
\*   "reload:cdp"         cdp_session.send('Page.reload', ignoreCache: True)
ReloadMechanism(mode) ==
    IF mode = "javascript" THEN "reload:javascript"
    ELSE IF mode = "keyboard" THEN "reload:keyboard"
    ELSE "reload:cdp"

\* super_reload from the mode dispatch to the return: the mechanism, the
\* load-state wait, page.title() (a failure gives 'Unknown'), page.url.
\* mechOk: the mechanism did not raise; o1: what the wait does.
SuperReloadWork(mode, mechOk, o1) ==
    LET r == PageWaitForLoadState("domcontentloaded", DefaultTimeout, o1, o1)
    IN  IF ~mechOk
        THEN [calls |-> <<ModeEntry(mode), ReloadMechanism(mode), "reload:failed">>,
              ok |-> FALSE]
        ELSE IF r.raised
        THEN [calls |-> <<ModeEntry(mode), ReloadMechanism(mode), "wait">>,
              ok |-> FALSE]
        ELSE [calls |-> <<ModeEntry(mode), ReloadMechanism(mode)>>
                         \o WaitLog(r.waits) \o <<"title">>,
              ok |-> TRUE]

\* return {'url': ..., 'title': ...}: the tokens of the url, then the title
ReturnDict(u, title) ==
    [kind |-> "return", error |-> "none", msg |-> u \o <<title>>]

\* page.title() raises: the page does not answer, or its tab has been closed
\* (closedNow: by the user, after the page was chosen)
TitleFails(p, closedNow) ==
    p.st \in {"titleFails", "closedLater"} \/ closedNow

\* get_current_url whose title failure is left to the outer handler
GetCurrentUrlStrict(p, closedNow) ==
    IF TitleFails(p, closedNow)
    THEN [calls |-> <<"title", "title:failed">>,
          result |-> Raise("BrowserBotTaskFailedError", "body")]
    ELSE [calls |-> <<"title">>, result |-> ReturnDict(p.url, "title")]

\* The try block of get_current_url: page.url, page.title() with 'Unknown'
\* when it raises, return
GetCurrentUrl(p, closedNow) ==
    IF TitleFails(p, closedNow)
    THEN [calls |-> <<"title", "title:failed">>,
          result |-> ReturnDict(p.url, "Unknown")]
    ELSE [calls |-> <<"title">>, result |-> ReturnDict(p.url, "title")]

\* The unit of work, its exception handler and its finally block.
\* run_lighthouse reads page.url, closes and goes on to the audit.
Body ==
    /\ opPc = "body"
    /\ IF op = "run_lighthouse"
       THEN /\ calls' = calls \o <<"close">>
            /\ opPc' = "audit"
            /\ UNCHANGED opOutcome
       ELSE IF op = "get_current_url"
       THEN \E closedNow \in BOOLEAN :
            LET r == GetCurrentUrl(opPage, closedNow)
            IN  /\ calls' = calls \o <<"work">> \o r.calls \o AfterBody(op)
                /\ Finish(r.result)
       ELSE IF op = "super_reload"
       THEN \E mode \in ReloadModes, mechOk \in BOOLEAN, o1 \in WaitOutcomes :
            LET r == SuperReloadWork(mode, mechOk, o1)
            IN  /\ calls' = calls \o <<"work">> \o r.calls \o AfterBody(op)
                /\ Finish(IF r.ok THEN Return ELSE BodyError(op))
       ELSE \E ok \in BOOLEAN :
            /\ calls' = calls \o <<"work">> \o AfterBody(op)
            /\ Finish(IF ok THEN Return ELSE BodyError(op))
    /\ UNCHANGED <<remote, endpointDown, argFault, op, url, navUrl,
                   connected, sessionStarted, opPage, notOp>>

\* run_lighthouse after the URL is known: the validation of categories and
\* device, then the lighthouse subprocess.
Audit ==
    /\ opPc = "audit"
    /\ IF argFault \in {"bad_category", "bad_device"}
       THEN /\ UNCHANGED calls
            /\ Finish(Raise("BrowserBotTaskAbortedError", argFault))
       ELSE \E ok \in BOOLEAN :
            /\ calls' = Append(calls, "lighthouse")
            /\ Finish(IF ok THEN Return
                      ELSE Raise("BrowserBotTaskFailedError", "lighthouse"))
    /\ UNCHANGED <<remote, endpointDown, argFault, op, url, navUrl,
                   connected, sessionStarted, opPage, notOp>>

(***************************************************************************)
(* run_task                                                                *)
(***************************************************************************)
\* The grid session (remote) or _check_chrome_running (local), then
\* BrowserSession(cdp_url=...)
TaskConnect ==
    /\ opPc = "task_connect"
    /\ IF remote
       THEN \E grid \in {"ok", "session_fails", "no_se_cdp"} :
              /\ calls' = Append(calls, "grid_session")
              /\ CASE grid = "ok" -> opPc' = "task_start" /\ UNCHANGED opOutcome
                   [] grid = "session_fails" ->
                        Finish(Raise("WebDriverException", "grid"))
                   [] OTHER -> Finish(Raise("KeyError", "se:cdp"))
       ELSE \E answer \in ProbeAnswersWhen(endpointDown) :
              LET r == CheckChromeRunning(remote, answer)
              IN  /\ calls' = calls \o r.calls
                  /\ IF r.result.kind = "raise" THEN Finish(r.result)
                     ELSE opPc' = "task_start" /\ UNCHANGED opOutcome
    /\ UNCHANGED <<remote, endpointDown, argFault, op, url, navUrl,
                   connected, sessionStarted, opPage, notOp>>

\* await browser_session.start()
TaskStart ==
    /\ opPc = "task_start"
    /\ calls' = Append(calls, "session.start")
    /\ \E ok \in ConnectResults(remote, endpointDown) :
        IF ok
        THEN sessionStarted' = TRUE /\ opPc' = "task_init" /\ UNCHANGED opOutcome
        ELSE UNCHANGED sessionStarted /\ Finish(Raise("SessionError", "start"))
    /\ UNCHANGED <<remote, endpointDown, argFault, op, url, navUrl,
                   connected, opPage, notOp>>

\* try: get_current_page, _setup_page_logging, page.wait_for_load_state(
\* 'networkidle'); except Exception: raise BrowserBotTaskFailedError
TaskInit ==
    /\ opPc = "task_init"
    /\ \E o1 \in WaitOutcomes, installFails \in BOOLEAN :
        LET r == SetupPageLoggingOf(installFails)
            w == WaitCallOf("networkidle", PlaywrightTimeout, o1)
        IN  IF r.raised
            THEN /\ calls' = calls \o r.calls
                 /\ Finish(Raise("BrowserBotTaskFailedError", "page_logging"))
            ELSE /\ calls' = calls \o r.calls \o WaitLog(<<w>>)
                 /\ IF o1 = "ok"
                    THEN /\ opPc' = IF Truthy(url) THEN "task_goto"
                                    ELSE "task_agent"
                         /\ UNCHANGED opOutcome
                    ELSE Finish(Raise("BrowserBotTaskFailedError",
                                      IF o1 = "timeout" THEN "wait_timeout"
                                      ELSE "wait_error"))
    /\ UNCHANGED <<remote, endpointDown, argFault, op, url, navUrl,
                   connected, sessionStarted, opPage, notOp>>

\* The calls of the navigation of run_task; "nav:failed" records that goto
\* or the load-state wait raised (the except clause logs a warning).
TaskNavCalls(gotoOk, o1) ==
    LET r == PageWaitForLoadState("domcontentloaded", DefaultTimeout, o1, o1)
    IN  IF ~gotoOk THEN <<"goto", "nav:failed">>
        ELSE IF r.raised THEN <<"goto", "wait", "nav:failed">>
        ELSE <<"goto">> \o WaitLog(r.waits)

\* A failed navigation ending run_task
TaskGotoAborts ==
    /\ opPc = "task_goto"
    /\ \E gotoOk \in BOOLEAN, o1 \in WaitOutcomes :
        LET c == TaskNavCalls(gotoOk, o1)
        IN  /\ calls' = calls \o c
            /\ IF c[Len(c)] = "nav:failed"
               THEN Finish(Raise("BrowserBotTaskFailedError", "navigation"))
               ELSE opPc' = "task_agent" /\ UNCHANGED opOutcome
    /\ UNCHANGED <<remote, endpointDown, argFault, op, url, navUrl,
                   connected, sessionStarted, opPage, notOp>>

\* if url: try: goto(url), _page_wait_for_load_state; except: go on
TaskGoto ==
    /\ opPc = "task_goto"
    /\ \E gotoOk \in BOOLEAN, o1 \in WaitOutcomes :
        calls' = calls \o TaskNavCalls(gotoOk, o1)
    /\ opPc' = "task_agent"
    /\ UNCHANGED <<remote, endpointDown, argFault, op, url, navUrl,
                   connected, sessionStarted, opPage,
                   opOutcome, notOp>>

\* int(os.getenv('BROWSER_USE_MAX_STEPS', 7))
DefaultMaxSteps == 7
\* timeout_seconds = max_steps * 6
SecondsPerStep == 6

\* An optional number: <<>> is None / unset, <<n>> is n
StepArgs == {<<>>, <<0>>, <<1>>, <<3>>}
StepEnvs == {<<>>, <<2>>}

\* What agent.run does, left alone: it returns or raises after `at` seconds
\* (never at a multiple of SecondsPerStep, so that no run ends at the very
\* moment of expiry).
AgentTimes == {1, 10, 15, 20, 50}
AgentBehaviours ==
    { [kind |-> "returns", exc |-> "none", at |-> t] : t \in AgentTimes }
    \cup
    { [kind |-> "raises", exc |-> e, at |-> t] :
        e \in {"TimeoutError", "ValueError"}, t \in AgentTimes }

\* if max_steps is None: max_steps = int(os.getenv(..., 7))
MaxStepsOf(arg, env) ==
    IF arg # <<>> THEN arg[1]
    ELSE IF env # <<>> THEN env[1]
    ELSE DefaultMaxSteps

\* The agent run left without a timeout
RunAgentUnbounded(arg, env, agent) ==
    [timeout |-> MaxStepsOf(arg, env) * SecondsPerStep,
     result |->
       IF agent.kind = "returns" THEN Return
       ELSE IF agent.exc = "TimeoutError"
       THEN Raise("BrowserBotTaskFailedError", "agent_timeout")
       ELSE Raise("BrowserBotTaskFailedError", "agent_error")]

\* asyncio.wait_for(agent.run(max_steps=max_steps), timeout=timeout_seconds)
\* and the two except clauses around it
RunAgent(arg, env, agent) ==
    LET timeout_seconds == MaxStepsOf(arg, env) * SecondsPerStep
    IN  [timeout |-> timeout_seconds,
         result |->
           IF agent.at > timeout_seconds        \* wait_for: TimeoutError
           THEN Raise("BrowserBotTaskFailedError", "agent_timeout")
           ELSE IF agent.kind = "returns" THEN Return
           ELSE IF agent.exc = "TimeoutError"   \* except asyncio.TimeoutError
           THEN Raise("BrowserBotTaskFailedError", "agent_timeout")
           ELSE Raise("BrowserBotTaskFailedError", "agent_error")]

\* Agent(...); asyncio.wait_for(agent.run(max_steps), timeout_seconds)
TaskAgent ==
    /\ opPc = "task_agent"
    /\ calls' = Append(calls, "agent.run")
    /\ \E arg \in StepArgs, env \in StepEnvs, agent \in AgentBehaviours :
        Finish(RunAgent(arg, env, agent).result)
    /\ UNCHANGED <<remote, endpointDown, argFault, op, url, navUrl,
                   connected, sessionStarted, opPage, notOp>>

NextOp ==
    \/ OpCall
    \/ PreProbe
    \/ GetConnection
    \/ ConnectOverCdp
    \/ ResolveActivePage
    \/ Goto
    \/ NavWait
    \/ SetupPageLogging
    \/ BodyWait
    \/ ReloadGoto
    \/ Body
    \/ Audit
    \/ TaskConnect
    \/ TaskStart
    \/ TaskInit
    \/ TaskGoto
    \/ TaskAgent

Spec == InitOp /\ [][NextOp]_vars

(***************************************************************************)
(* Properties of _find_most_recent_active_page (under SpecSelect)          *)
(***************************************************************************)
PageIds == 1..Len(pages)
InfoIds == 1..Len(page_info)
AllMetadataOk == \A i \in PageIds : pages[i].st = "ok"
FocusedIds == { i \in PageIds : pages[i].hasFocus }
Throws(p) == p.st \in {"titleFails", "evalFails"}
NotThrowing(p) == ~Throws(p)
RankedPages == { page_info[j].page : j \in InfoIds }

\* C3: when every page answers its metadata queries and exactly one page
\* reports hasFocus = true, that page is returned, whatever the visibility
\* states, the timestamps and the enumeration order.
C3_FocusedPageSelected ==
    (selPc = "returned" /\ ~rankFault /\ AllMetadataOk
        /\ Cardinality(FocusedIds) = 1)
    => \A i \in FocusedIds : selected = pages[i]

\* The scenario A unfocused/visible/later, B focused/hidden/earlier yields B.
C3_Witness ==
    /\ selPc = "returned" /\ ~rankFault /\ AllMetadataOk
    /\ Len(pages) >= 2
    /\ ~pages[1].hasFocus /\ pages[1].visibilityState = "visible"
    /\ pages[1].timestamp = MaxTs
    /\ pages[2].hasFocus /\ pages[2].visibilityState = "hidden"
    /\ pages[2].timestamp = 0
    /\ Cardinality(FocusedIds) = 1
    /\ selected = pages[2]

\* C4: when no ranked page has focus and at least one is visible, the
\* returned page is visible, no visible ranked page has a higher timestamp,
\* and among the pages equal to it on (hasFocus, visible, timestamp) it is
\* the first in enumeration order.
C4_VisibleLatestFirst ==
    (selPc = "returned" /\ ~rankFault
        /\ (\A j \in InfoIds : ~page_info[j].has_focus)
        /\ (\E j \in InfoIds : page_info[j].visibility_state = "visible"))
    => /\ selected \in RankedPages
       /\ selected.visibilityState = "visible"
       /\ \A j \in InfoIds :
            page_info[j].visibility_state = "visible"
            => page_info[j].timestamp <= selected.timestamp
       /\ \A j \in InfoIds :
            (/\ page_info[j].visibility_state = "visible"
             /\ page_info[j].timestamp = selected.timestamp)
            => selected.id <= page_info[j].page.id

\* Three unfocused pages, the last two visible with the same latest
\* timestamp: the second one is returned.
C4_Witness ==
    /\ selPc = "returned" /\ ~rankFault /\ AllMetadataOk
    /\ Len(pages) = 3
    /\ FocusedIds = {}
    /\ pages[1].visibilityState = "hidden" /\ pages[1].timestamp = MaxTs
    /\ pages[2].visibilityState = "visible" /\ pages[2].timestamp = MaxTs
    /\ pages[3].visibilityState = "visible" /\ pages[3].timestamp = MaxTs
    /\ selected = pages[2]

C9_ThrowingPagesDropped ==
    selPc # "setup"
    => /\ selPc = "returned"
       /\ RankedPages =
            { pages[i] : i \in { k \in PageIds :
                ~Throws(pages[k]) /\ ~ClosedAtSelection(pages[k]) } }
       /\ page_info = CollectPageInfo(SelectSeq(pages, NotThrowing))
       /\ (~rankFault =>
            selected =
              FindMostRecentActivePage(SelectSeq(pages, NotThrowing), FALSE))

\* One page throws in evaluate(), one in title(), the third is returned.
C9_Witness ==
    /\ selPc = "returned" /\ ~rankFault
    /\ Len(pages) = 3
    /\ pages[1].st = "evalFails"
    /\ pages[2].st = "titleFails"
    /\ pages[3].st = "ok"
    /\ selected = pages[3]

(***************************************************************************)
(* SpecScan: the resolution of _get_active_page (url=None) on every        *)
(* browser of up to MaxContexts contexts and MaxScanPages pages.           *)
(***************************************************************************)
ScanPages(i) ==
    { MkPage(i, "ok", u, FALSE, "visible", 0) : u \in ContentUrls \cup SpecialUrls }
    \cup
    { MkPage(i, "ok", <<"https", "://", "a.test">>, TRUE, "visible", 0),
      MkPage(i, "ok", <<"devtools", "://", "devtools">>, TRUE, "visible", 0),
      MkPage(i, "closed", <<"https", "://", "a.test">>, FALSE, "hidden", 0),
      MkPage(i, "closed", <<"chrome", "://", "settings">>, FALSE, "hidden", 0),
      MkPage(i, "closedLater", <<"https", "://", "a.test">>, FALSE, "hidden", 0),
      MkPage(i, "evalFails", <<"https", "://", "a.test">>, FALSE, "hidden", 0) }

InitScan ==
    /\ SelectIdle
    /\ WaitIdle
    /\ OpIdle
    /\ ExtraIdle
    /\ contexts = <<>>
    /\ create_new_page = TRUE
    /\ newPageFails = FALSE
    /\ scanPc = "setup"
    /\ all_pages = <<>>
    /\ active_page = NoPage
    /\ scanError = "none"
    /\ scanCloses = 0
    /\ scanNewPages = 0

\* The browser before the call: one more (empty) context.
ScanAddContext ==
    /\ scanPc = "setup"
    /\ Len(contexts) < MaxContexts
    /\ contexts' = Append(contexts, <<>>)
    /\ UNCHANGED <<notScan, create_new_page, newPageFails, scanPc, all_pages,
                   active_page, scanError, scanCloses, scanNewPages>>

\* The browser before the call: one more page in the last context.
ScanAddPage ==
    /\ scanPc = "setup"
    /\ contexts # <<>>
    /\ CountPages(contexts) < MaxScanPages
    /\ \E p \in ScanPages(CountPages(contexts) + 1) :
        contexts' = [contexts EXCEPT ![Len(contexts)] = Append(@, p)]
    /\ UNCHANGED <<notScan, create_new_page, newPageFails, scanPc, all_pages,
                   active_page, scanError, scanCloses, scanNewPages>>

\* The call, from browser.contexts to return (page, browser) or raise.
ResolveCall ==
    /\ scanPc = "setup"
    /\ \E cnp \in BOOLEAN, npf \in BOOLEAN, fault \in BOOLEAN :
        LET r == ResolvePage(contexts, cnp, npf, fault)
        IN  /\ create_new_page' = cnp
            /\ newPageFails' = npf
            /\ rankFault' = fault
            /\ scanPc' = IF r.outcome = "page" THEN "returned" ELSE "raised"
            /\ all_pages' = r.all_pages
            /\ active_page' = r.active_page
            /\ scanError' = r.error
            /\ scanCloses' = r.closes
            /\ scanNewPages' = r.new_pages
    /\ UNCHANGED <<pages, selPc, selected, page_info, contexts, waitVars,
                   opVars, extraVars>>

NextScan == ScanAddContext \/ ScanAddPage \/ ResolveCall

SpecScan == InitScan /\ [][NextScan]_vars

(***************************************************************************)
(* Properties of the page resolution of _get_active_page (under SpecScan)  *)
(***************************************************************************)
BrowserPages ==
    UNION { { contexts[c][k] : k \in 1..Len(contexts[c]) } :
            c \in 1..Len(contexts) }

ReservedSchemes == {"devtools", "chrome", "chrome-extension", "moz-extension"}

HasReservedScheme(p) ==
    /\ Len(p.url) >= 2
    /\ p.url[1] \in ReservedSchemes
    /\ p.url[2] = "://"

EligiblePages ==
    { p \in BrowserPages : p.st # "closed" /\ ~HasReservedScheme(p) }

ScanDone == scanPc \in {"returned", "raised"}

\* C5: the candidate list holds no page that was closed when it was
\* enumerated and no page with a reserved URL scheme, and the page that the
\* resolution returns (selected, first-page fallback or created) has no
\* reserved scheme either.
C5_NoReservedCandidates ==
    ScanDone
    => /\ \A i \in 1..Len(all_pages) :
            /\ all_pages[i].st # "closed"
            /\ ~HasReservedScheme(all_pages[i])
       /\ (scanPc = "returned" => ~HasReservedScheme(active_page))
       /\ (scanNewPages = 0 =>
            { all_pages[i] : i \in 1..Len(all_pages) } = EligiblePages)

\* A focused devtools page enumerated before a content page: the content
\* page is the only candidate and is returned.
C5_Witness ==
    /\ scanPc = "returned"
    /\ \E p \in BrowserPages :
        /\ p.url[1] = "devtools" /\ p.hasFocus /\ p.st = "ok" /\ p.id = 1
    /\ Len(all_pages) = 1
    /\ active_page = all_pages[1]
    /\ active_page.id = 2

\* C6 as stated: with zero eligible pages, zero contexts included, the
\* resolution fails with BrowserRuntimeError when creation is disallowed and
\* returns a newly created page when it is allowed (and creation works).
C6_ZeroEligibleAsStated ==
    (ScanDone /\ EligiblePages = {})
    => /\ (~create_new_page =>
            scanPc = "raised" /\ scanError = "BrowserRuntimeError")
       /\ ((create_new_page /\ ~newPageFails) =>
            scanPc = "returned" /\ scanNewPages = 1)

\* C6 as amended: with at least one context and zero eligible pages, the
\* resolution fails with BrowserRuntimeError and creates nothing when
\* creation is disallowed; when it is allowed it calls new_page once and
\* returns the new page, or fails with BrowserRuntimeError if new_page
\* raises.  With zero contexts it fails with BrowserRuntimeError whatever the
\* policy and creates nothing.
C6_ZeroEligible ==
    (ScanDone /\ EligiblePages = {})
    => /\ ((contexts # <<>> /\ ~create_new_page) =>
            /\ scanPc = "raised" /\ scanError = "BrowserRuntimeError"
            /\ scanNewPages = 0)
       /\ ((contexts # <<>> /\ create_new_page /\ ~newPageFails) =>
            /\ scanPc = "returned" /\ scanNewPages = 1
            /\ active_page \notin BrowserPages
            /\ active_page.id = CountPages(contexts) + 1
            /\ all_pages = <<active_page>>)
       /\ ((contexts # <<>> /\ create_new_page /\ newPageFails) =>
            scanPc = "raised" /\ scanError = "BrowserRuntimeError")
       /\ (contexts = <<>> =>
            /\ scanPc = "raised" /\ scanError = "BrowserRuntimeError"
            /\ scanNewPages = 0)

\* One context that holds only a closed page and a reserved page, creation
\* allowed: a new page is returned.
C6_Witness ==
    /\ scanPc = "returned"
    /\ Len(contexts) = 1
    /\ Len(contexts[1]) = 2
    /\ contexts[1][1].st = "closed"
    /\ HasReservedScheme(contexts[1][2])
    /\ create_new_page
    /\ scanNewPages = 1
    /\ active_page.id = 3

\* C7: when some page is eligible the resolution returns one of the
\* eligible pages; when every eligible page fails its metadata queries, or
\* the ranking raises, it returns the first eligible page in enumeration
\* order.
C7_RankingNeverFails ==
    (ScanDone /\ EligiblePages # {})
    => /\ scanPc = "returned"
       /\ scanError = "none"
       /\ active_page \in EligiblePages
       /\ scanNewPages = 0
       /\ ((rankFault \/ \A p \in EligiblePages : p.st # "ok")
            => \A p \in EligiblePages : active_page.id <= p.id)

\* Two eligible pages whose evaluate() both raise: the first is returned.
C7_Witness ==
    /\ scanPc = "returned" /\ ~rankFault
    /\ Cardinality(EligiblePages) = 2
    /\ \A p \in EligiblePages : p.st = "evalFails"
    /\ active_page.id = 1

\* C30: on a browser without contexts the resolution raises
\* BrowserRuntimeError, with create_new_page True as with False, and
\* new_page is not called.
C30_NoContextsAlwaysFails ==
    (ScanDone /\ contexts = <<>>)
    => /\ scanPc = "raised"
       /\ scanError = "BrowserRuntimeError"
       /\ scanNewPages = 0
       /\ active_page = NoPage
       /\ all_pages = <<>>

\* No contexts, creation allowed and new_page would succeed
C30_Witness ==
    /\ scanPc = "raised"
    /\ contexts = <<>>
    /\ create_new_page
    /\ ~newPageFails
    /\ scanError = "BrowserRuntimeError"
    /\ scanNewPages = 0

(***************************************************************************)
(* SpecWait: _page_wait_for_load_state on pages that reach their load      *)
(* states at given times (ms after the call), never, or are closed.        *)
(***************************************************************************)
Never == 1000 * 1000

LoadTimes == {0, 2000, 6000, 8000, 11000, 13000, Never}
CloseTimes == {500, 7500, Never}
RequestedTimeouts == {1000, DefaultTimeout, 10000}

PageTimelines ==
    { [dom |-> d, load |-> l, idle |-> i, close |-> c] :
        d \in LoadTimes, l \in LoadTimes, i \in LoadTimes, c \in CloseTimes }

ReachedAt(page, state) ==
    CASE state = "domcontentloaded" -> page.dom
      [] state = "load" -> page.load
      [] state = "networkidle" -> page.idle

\* page.wait_for_load_state(state, timeout=timeout) called at time now
WaitOutcome(page, state, timeout, now) ==
    LET deadline == now + timeout
        reached == ReachedAt(page, state)
    IN  IF page.close < reached /\ page.close < deadline THEN "error"
        ELSE IF reached <= deadline THEN "ok"
        ELSE "timeout"

InitWait ==
    /\ SelectIdle
    /\ ScanIdle
    /\ OpIdle
    /\ ExtraIdle
    /\ wPage \in { t \in PageTimelines : t.dom <= t.load /\ t.load <= t.idle }
    /\ wState \in LoadStates
    /\ wTimeout \in RequestedTimeouts
    /\ wPc = "call"
    /\ wResult = "none"
    /\ wWaits = <<>>

\* The whole call.  The second wait starts when the first one timed out.
WaitCall ==
    /\ wPc = "call"
    /\ LET o1 == WaitOutcome(wPage, wState, wTimeout, 0)
           o2 == WaitOutcome(wPage, "domcontentloaded", FallbackTimeout, wTimeout)
           r == PageWaitForLoadState(wState, wTimeout, o1, o2)
       IN  /\ wPc' = IF r.raised THEN "raised" ELSE "returned"
           /\ wResult' = r.result
           /\ wWaits' = r.waits
    /\ UNCHANGED <<wPage, wState, wTimeout, notWait>>

NextWait == WaitCall

SpecWait == InitWait /\ [][NextWait]_vars

(***************************************************************************)
(* Properties of _page_wait_for_load_state (under SpecWait)                *)
(***************************************************************************)
WaitDone == wPc \in {"returned", "raised"}

\* C10: when the wait for 'networkidle' times out, exactly one further wait
\* is made, for 'domcontentloaded'; the call returns 'domcontentloaded' if
\* that wait succeeds and 'skipped' if it times out too.  The call raises
\* only when a wait fails with something other than a timeout, and a
\* returned value is the requested state, 'domcontentloaded' or 'skipped'.
C10_NetworkIdleFallback ==
    WaitDone
    => /\ ((wState = "networkidle" /\ wWaits[1].outcome = "timeout") =>
            /\ Len(wWaits) = 2
            /\ wWaits[2].state = "domcontentloaded"
            /\ (wWaits[2].outcome = "ok" =>
                  wPc = "returned" /\ wResult = "domcontentloaded")
            /\ (wWaits[2].outcome = "timeout" =>
                  wPc = "returned" /\ wResult = "skipped"))
       /\ (wPc = "raised" => wWaits[Len(wWaits)].outcome = "error")
       /\ (wPc = "returned" =>
            wResult \in {wState, "domcontentloaded", "skipped"})
       /\ wWaits[1].state = wState
       /\ (wWaits[1].outcome = "ok" => wPc = "returned" /\ wResult = wState)

\* The page is never network-idle and its DOM is ready after the first
\* deadline but before the second: 'domcontentloaded' is returned.
C10_Witness ==
    /\ wPc = "returned"
    /\ wState = "networkidle"
    /\ wPage.idle = Never
    /\ wPage.dom > wTimeout
    /\ Len(wWaits) = 2
    /\ wWaits[1].outcome = "timeout"
    /\ wWaits[2].outcome = "ok"
    /\ wResult = "domcontentloaded"

\* C11: for a requested state other than 'networkidle' the call makes
\* exactly one wait, for the requested state with the requested timeout, and
\* when that wait times out the call returns 'skipped'.
C11_SingleAttempt ==
    (WaitDone /\ wState # "networkidle")
    => /\ Len(wWaits) = 1
       /\ wWaits[1].state = wState
       /\ wWaits[1].timeout = wTimeout
       /\ (wWaits[1].outcome = "timeout" =>
            wPc = "returned" /\ wResult = "skipped")

\* 'load' is requested on a page whose DOM is ready in time for a second
\* wait but which does not finish loading: one wait, 'skipped'.
C11_Witness ==
    /\ wPc = "returned"
    /\ wState = "load"
    /\ wPage.dom <= wTimeout + FallbackTimeout
    /\ wPage.load > wTimeout
    /\ Len(wWaits) = 1
    /\ wWaits[1].outcome = "timeout"
    /\ wResult = "skipped"

(***************************************************************************)
(* Properties of the public operations (under Spec)                        *)
(***************************************************************************)
OpDone == opPc = "done"
LastCall == IF calls = <<>> THEN "none" ELSE calls[Len(calls)]

\* C1: an operation that acquired a browser connection has called close()
\* on it exactly once when it returns or raises.
C1_ClosedExactlyOnce ==
    (OpDone /\ op \in ActivePageOps /\ connected)
    => Count(calls, "close") = 1

\* C2: once the browser session of run_task was started, it has been closed
\* when run_task returns or raises.
C2_TaskSessionClosed ==
    (OpDone /\ op = "run_task" /\ sessionStarted)
    => Count(calls, "session.close") >= 1

\* C12: a load-state wait that timed out never ends the operation: the
\* operation goes on after it and does not fail on account of the timeout.
C12_TimeoutDoesNotAbort ==
    OpDone
    => /\ LastCall # "wait:timeout"
       /\ opOutcome # Raise("BrowserBotTaskFailedError", "wait_timeout")

IsConnect(c) == c \in {ConnectCall(TRUE), ConnectCall(FALSE)}
CallIds == 1..Len(calls)

\* The call was not rejected for its arguments or for a missing npx
InputAccepted ==
    /\ opOutcome.error # "BrowserBotTaskAbortedError"
    /\ opOutcome # Raise("BrowserRuntimeError", "npx")

\* C13: in local mode connect_over_cdp is called only right after a probe
\* of the same operation was answered with status 200; and when nothing
\* listens on the local endpoint, an operation fails with
\* BrowserRuntimeError carrying the start-Chrome instruction, without a call
\* of connect_over_cdp or a page enumeration.
C13_LocalProbeBeforeConnect ==
    ~remote
    => /\ \A i \in CallIds :
            IsConnect(calls[i]) => (i > 1 /\ calls[i - 1] = ProbeReply("200"))
       /\ (OpDone /\ endpointDown /\ InputAccepted)
            => /\ opOutcome = RaiseMsg("BrowserRuntimeError", <<StartChromeText>>)
               /\ \A i \in CallIds :
                    ~IsConnect(calls[i]) /\ calls[i] # "contexts"

FailedProbeReplies == { ProbeReply(a) : a \in ProbeAnswers \ {"200"} }
Contains(parts, x) == \E k \in 1..Len(parts) : parts[k] = x

ProbeEntries == {"probe"} \cup { ProbeReply(a) : a \in ProbeAnswers }

\* C15: in remote mode no probe request is sent to the local debugging
\* endpoint, and a connection is opened only with the URL that the grid
\* session gave, right after that session was obtained.
C15_RemoteNeverProbes ==
    remote
    => \A i \in CallIds :
        /\ calls[i] \notin ProbeEntries
        /\ calls[i] # ConnectCall(FALSE)
        /\ (calls[i] \in {ConnectCall(TRUE), "session.start"} =>
             (i > 1 /\ calls[i - 1] = "grid_session"))

\* run_script in remote mode, which awaits _check_chrome_running itself and
\* again inside _get_browser_connection, ran its script.
C15_Witness ==
    /\ remote
    /\ OpDone
    /\ op = "run_script"
    /\ connected
    /\ calls[1] = "grid_session"
    /\ calls[2] = ConnectCall(TRUE)
    /\ Contains(calls, "work")
    /\ opOutcome = Return

ConnectionCalls ==
    FailedProbeReplies \cup {"grid_session", ConnectCall(TRUE), ConnectCall(FALSE)}

\* C16: an operation that ends in the connection establisher (at a failed
\* probe, at the grid session or at connect_over_cdp) ends with
\* BrowserRuntimeError.
C16_ConnectionFailuresAreRuntimeErrors ==
    (OpDone /\ opOutcome.kind = "raise" /\ LastCall \in ConnectionCalls)
    => opOutcome.error = "BrowserRuntimeError"

\* The url argument is one of the tokens that mean "no URL"
IsSentinelArg(u) == u # PyNone /\ Lower(u) \in SentinelUrls

\* C17: when the url argument is 'null', 'none', 'undefined' or the empty
\* string, in any letter case, the operation never calls goto.
C17_SentinelNeverNavigates ==
    IsSentinelArg(url) => Count(calls, "goto") = 0

\* The position in the call log at which _get_active_page returned the page
\* (its last step is _setup_page_logging), or 0
ReturnedAt ==
    IF \E i \in CallIds : calls[i] = "page.on"
    THEN CHOOSE i \in CallIds : calls[i] = "page.on"
    ELSE 0

\* C18: when _get_active_page was given a URL that is not a sentinel, it
\* returns the page only after it called goto on the selected page and the
\* load-state wait that follows has returned; whatever the operation does
\* with the page comes after both.
C18_NavigatedBeforeReturn ==
    (op \in ActivePageOps /\ Truthy(navUrl) /\ ReturnedAt > 0)
    => /\ ReturnedAt > 2
       /\ calls[ReturnedAt - 1] \in {"wait", "wait:timeout"}
       /\ \E g \in 1..(ReturnedAt - 1) :
            /\ calls[g] = "goto"
            /\ calls[g + 1] = "wait"
            /\ \E e \in 1..(g - 1) : calls[e] = "contexts"
       /\ \A i \in 1..ReturnedAt : calls[i] \notin {"work", "close"}

\* get_page_source(url='https://a.test/'): the wait after the navigation
\* timed out ('skipped') and the source was read afterwards.
C18_Witness ==
    /\ OpDone
    /\ op = "get_page_source"
    /\ navUrl = "https://a.test/"
    /\ ReturnedAt > 0
    /\ calls[ReturnedAt - 1] = "wait:timeout"
    /\ Contains(calls, "work")
    /\ opOutcome = Return

\* C19: a call with an empty script or an empty task makes no call to the
\* browser (no probe, no connection) and ends with
\* BrowserBotTaskAbortedError.
C19_EmptyInputRejectedFirst ==
    argFault = "empty"
    => /\ calls = <<>>
       /\ (OpDone => opOutcome.error = "BrowserBotTaskAbortedError")

\* C20: request with an invalid method and run_lighthouse with an invalid
\* category or device end with BrowserBotTaskAbortedError, and no probe was
\* sent and no connection was opened before (npx being installed).
C20_InvalidArgumentsRejectedFirst ==
    (OpDone /\ argFault \in {"bad_method", "bad_category", "bad_device"}
            /\ opOutcome # Raise("BrowserRuntimeError", "npx"))
    => /\ opOutcome.error = "BrowserBotTaskAbortedError"
       /\ calls = <<>>

\* The operations named by C21
UnitOfWorkOps ==
    {"run_script", "run_python_script", "get_current_url", "super_reload",
     "get_page_source", "get_visible_screenshot", "get_full_screenshot",
     "request"}

\* C21: when the unit of work of an operation raises, the operation ends
\* with BrowserBotTaskFailedError.
C21_BodyErrorsAreTaskFailed ==
    (OpDone /\ op \in UnitOfWorkOps /\ Contains(calls, "work")
            /\ opOutcome.kind = "raise")
    => opOutcome.error = "BrowserBotTaskFailedError"

\* C22: an operation that connected and whose _get_active_page did not
\* return a page (no contexts, no eligible page and creation disallowed,
\* new_page, goto or the wait after it raised) ends with
\* BrowserRuntimeError, and browser.close() was called, last of all calls,
\* before the error left.
C22_ResolutionFailureClosesFirst ==
    (OpDone /\ op \in ActivePageOps /\ connected /\ ~Contains(calls, "page.on"))
    => /\ opOutcome.kind = "raise"
       /\ opOutcome.error = "BrowserRuntimeError"
       /\ Count(calls, "close") >= 1
       /\ LastCall = "close"

\* get_current_url (creation disallowed) on a browser whose only page is a
\* devtools page.
C22_Witness ==
    /\ OpDone
    /\ op = "get_current_url"
    /\ connected
    /\ Contains(calls, "contexts")
    /\ ~Contains(calls, "new_page")
    /\ ~Contains(calls, "page.on")
    /\ LastCall = "close"
    /\ opOutcome = Raise("BrowserRuntimeError", "resolve")

\* C25: when page.on raises inside _setup_page_logging, the function
\* returns normally: _get_active_page still returns the page and the open
\* connection, the operation goes on, and no operation ends with an error of
\* the installation.
C25_LoggingFailureIgnored ==
    /\ (LastCall = "page.on:failed"
         => /\ ~OpDone
            /\ opOutcome = NoOutcome
            /\ connected
            /\ opPage # NoPage
            /\ opPc \in {"body_wait", "reload_goto", "body"})
    /\ \A i \in CallIds :
         (calls[i] = "page.on:failed" /\ i < Len(calls))
         => calls[i + 1] \in {"wait", "goto", "work",
                               "page.url:same", "page.url:differs"}
            \/ (op = "run_lighthouse" /\ calls[i + 1] = "close")
    /\ (OpDone => opOutcome.msg # <<"page_logging">>)

\* get_page_source read the page although the installation of the
\* forwarding failed.
C25_Witness ==
    /\ OpDone
    /\ op = "get_page_source"
    /\ Contains(calls, "page.on:failed")
    /\ Contains(calls, "work")
    /\ opOutcome = Return

(***************************************************************************)
(* The command-line dispatcher (__main__)                                  *)
(***************************************************************************)
\* class BrowserBotError(Exception) and its three subclasses
BrowserBotErrorFamily ==
    {"BrowserBotError", "BrowserBotTaskAbortedError",
     "BrowserBotTaskFailedError", "BrowserRuntimeError"}

\* The operations the dispatcher runs
CliOps == {"run_task", "run_script", "run_python_script"}

\* try: asyncio.run(...) except BrowserBotError: logger.error; sys.exit(1)
CliDispatch(result) ==
    IF result.kind = "return" THEN [exit |-> 0, logged |-> FALSE, uncaught |-> FALSE]
    ELSE IF result.error \in BrowserBotErrorFamily
    THEN [exit |-> 1, logged |-> TRUE, uncaught |-> FALSE]
    ELSE [exit |-> 1, logged |-> FALSE, uncaught |-> TRUE]

\* C26: whatever error run_task, run_script or run_python_script ends with,
\* the dispatcher catches it, logs it and exits with status 1.
C26_DispatcherCatchesEveryError ==
    (OpDone /\ op \in CliOps /\ argFault = "none" /\ opOutcome.kind = "raise")
    => /\ ~CliDispatch(opOutcome).uncaught
       /\ CliDispatch(opOutcome).logged
       /\ CliDispatch(opOutcome).exit = 1

(***************************************************************************)
(* SpecAgent: the agent run of run_task (lines 228-232 and 283-310) for    *)
(* every max_steps argument, environment value and agent behaviour.        *)
(***************************************************************************)
InitAgent ==
    /\ SelectIdle
    /\ ScanIdle
    /\ WaitIdle
    /\ OpIdle
    /\ ConfigIdle
    /\ GridIdle
    /\ CaptureIdle
    /\ RankIdle
    /\ ConcIdle
    /\ McpIdle
    /\ LogIdle
    /\ LaunchIdle
    /\ aMaxSteps \in StepArgs
    /\ aEnv \in StepEnvs
    /\ aAgent \in AgentBehaviours
    /\ aPc = "call"
    /\ aTimeout = 0
    /\ aOutcome = NoOutcome

AgentCall ==
    /\ aPc = "call"
    /\ LET r == RunAgent(aMaxSteps, aEnv, aAgent)
       IN  /\ aTimeout' = r.timeout
           /\ aOutcome' = r.result
    /\ aPc' = "done"
    /\ UNCHANGED <<aMaxSteps, aEnv, aAgent, notAgent>>

NextAgent == AgentCall

SpecAgent == InitAgent /\ [][NextAgent]_vars

GetBrowserConnectionCached(owner, o) ==
    IF owner = <<>> THEN [owner |-> <<o>>, id |-> 1]
    ELSE [owner |-> owner, id |-> 1]

\* _get_browser_connection: connect_over_cdp returns a new Browser object
\* on every call; owner[c] is the operation that acquired connection c.
GetBrowserConnection(owner, o) ==
    [owner |-> Append(owner, o), id |-> Len(owner) + 1]

ConcTabs == 1..MaxPages

InitConc ==
    /\ SelectIdle
    /\ ScanIdle
    /\ WaitIdle
    /\ OpIdle
    /\ ConfigIdle
    /\ GridIdle
    /\ CaptureIdle
    /\ RankIdle
    /\ AgentIdle
    /\ McpIdle
    /\ LogIdle
    /\ LaunchIdle
    /\ cPc = [o \in ConcOps |-> "idle"]
    /\ cBrowser = [o \in ConcOps |-> 0]
    /\ cPage = [o \in ConcOps |-> 0]
    /\ cOpen = {}
    /\ cOwner = <<>>
    /\ cUses = {}
    /\ cFocus \in ConcTabs

\* browser = await _get_browser_connection(playwright_instance)
ConcConnect(o) ==
    /\ cPc[o] = "idle"
    /\ LET r == GetBrowserConnection(cOwner, o)
       IN  /\ cOwner' = r.owner
           /\ cBrowser' = [cBrowser EXCEPT ![o] = r.id]
           /\ cOpen' = cOpen \cup {r.id}
    /\ cPc' = [cPc EXCEPT ![o] = "connected"]
    /\ UNCHANGED <<cPage, cUses, cFocus, notConc>>

\* the try block of _get_active_page: the active page of the caller's own
\* connection, which is the tab the shared Chrome has in front
ConcResolve(o) ==
    /\ cPc[o] = "connected"
    /\ cUses' = cUses \cup {<<o, cBrowser[o], "resolve">>}
    /\ cPage' = [cPage EXCEPT ![o] = cFocus]
    /\ cPc' = [cPc EXCEPT ![o] = "resolved"]
    /\ UNCHANGED <<cBrowser, cOpen, cOwner, cFocus, notConc>>

\* except Exception in _get_active_page: await browser.close(); raise
ConcResolveFails(o) ==
    /\ cPc[o] = "connected"
    /\ cUses' = cUses \cup {<<o, cBrowser[o], "close">>}
    /\ cOpen' = cOpen \ {cBrowser[o]}
    /\ cPc' = [cPc EXCEPT ![o] = "closed"]
    /\ UNCHANGED <<cBrowser, cPage, cOwner, cFocus, notConc>>

\* the body of the public operation, on the page it was given
ConcWork(o) ==
    /\ cPc[o] = "resolved"
    /\ cUses' = cUses \cup {<<o, cBrowser[o], "work">>}
    /\ cPc' = [cPc EXCEPT ![o] = "worked"]
    /\ UNCHANGED <<cBrowser, cPage, cOpen, cOwner, cFocus, notConc>>

\* finally: if browser: await browser.close()
ConcClose(o) ==
    /\ cPc[o] = "worked"
    /\ cUses' = cUses \cup {<<o, cBrowser[o], "close">>}
    /\ cOpen' = cOpen \ {cBrowser[o]}
    /\ cPc' = [cPc EXCEPT ![o] = "closed"]
    /\ UNCHANGED <<cBrowser, cPage, cOwner, cFocus, notConc>>

\* the user brings another tab to the front
ConcFocus ==
    /\ \E o \in ConcOps : cPc[o] # "closed"
    /\ \E t \in ConcTabs \ {cFocus} : cFocus' = t
    /\ UNCHANGED <<cPc, cBrowser, cPage, cOpen, cOwner, cUses, notConc>>

NextConc ==
    \/ \E o \in ConcOps : ConcConnect(o)
    \/ \E o \in ConcOps : ConcResolve(o)
    \/ \E o \in ConcOps : ConcResolveFails(o)
    \/ \E o \in ConcOps : ConcWork(o)
    \/ \E o \in ConcOps : ConcClose(o)
    \/ ConcFocus

SpecConc == InitConc /\ [][NextConc]_vars

\* C23: concurrent operations each hold a connection of their own: every
\* connection an operation resolves on, works on or closes is one it
\* acquired itself, two operations never hold the same connection, and the
\* connection of an operation that has not closed it is still open.
C23_OwnConnection ==
    /\ \A u \in cUses : cOwner[u[2]] = u[1]
    /\ \A o1, o2 \in ConcOps :
        (o1 # o2 /\ cBrowser[o1] # 0 /\ cBrowser[o2] # 0)
        => cBrowser[o1] # cBrowser[o2]
    /\ \A o \in ConcOps :
        cPc[o] \in {"connected", "resolved", "worked"}
        => (cBrowser[o] \in cOpen /\ cOwner[cBrowser[o]] = o)

\* Nothing serialises the operations: two of them are past resolution at
\* the same time, on the same page, each over its own open connection.
C23_Witness ==
    /\ cPc[1] = "resolved"
    /\ cPc[2] = "resolved"
    /\ cPage[1] = cPage[2]
    /\ cPage[1] # 0
    /\ cBrowser[1] # cBrowser[2]
    /\ {cBrowser[1], cBrowser[2]} \subseteq cOpen

(***************************************************************************)
(* SpecMcp: one invocation of an MCP tool of mcp_server.py that wraps a    *)
(* browser_bot operation.  The operation's outcome is any of those the     *)
(* operations have: a value, an error of the BrowserBotError family, or an *)
(* exception of a library.                                                 *)
(***************************************************************************)

\* tool |-> the operation it awaits and how it renders the value returned
McpTools ==
    [browser_use_local_chrome |-> [fn |-> "run_task", render |-> "str"],
     get_page_source_code |-> [fn |-> "get_page_source", render |-> "json.dumps"],
     get_visible_screenshot_tool |->
         [fn |-> "get_visible_screenshot", render |-> "json.dumps"],
     get_full_screenshot_tool |->
         [fn |-> "get_full_screenshot", render |-> "json.dumps"],
     run_javascript_in_browser |-> [fn |-> "run_script", render |-> "json.dumps"],
     get_current_url_tool |-> [fn |-> "get_current_url", render |-> "f-string"],
     super_reload_tool |-> [fn |-> "super_reload", render |-> "f-string"],
     http_request_tool |-> [fn |-> "request", render |-> "json.dumps"]]

McpToolNames == DOMAIN McpTools

\* Task texts: sequences of a blank and a letter
TaskChars == {"sp", "ch"}
RECURSIVE TaskTextsOfLen(_)
TaskTextsOfLen(n) ==
    IF n = 0 THEN {<<>>}
    ELSE { Append(t, c) : t \in TaskTextsOfLen(n - 1), c \in TaskChars }
TaskTexts == UNION { TaskTextsOfLen(n) : n \in 0..MaxTaskLen }

\* str.strip()
RECURSIVE LStrip(_)
LStrip(t) ==
    IF t = <<>> THEN <<>>
    ELSE IF Head(t) = "sp" THEN LStrip(Tail(t))
    ELSE t
RECURSIVE RStrip(_)
RStrip(t) ==
    IF t = <<>> THEN <<>>
    ELSE IF t[Len(t)] = "sp" THEN RStrip(SubSeq(t, 1, Len(t) - 1))
    ELSE t
Strip(t) == RStrip(LStrip(t))

\* What the awaited operation does
McpOutcomes ==
    { [kind |-> "return", value |-> v] :
        v \in {"serialisable", "unserialisable"} }
    \cup
    { [kind |-> "raise", value |-> e] :
        e \in BrowserBotErrorFamily
              \cup {"PlaywrightError", "WebDriverException", "ValueError"} }

McpErrorText(e) == "error:" \o e

\* A tool whose handler catches the BrowserBotError family only
McpToolFamilyOnly(tool, task, outcome) ==
    [calls |-> <<[fn |-> McpTools[tool].fn, outcome |-> outcome]>>,
     result |->
       IF outcome.kind = "raise"
       THEN IF outcome.value \in BrowserBotErrorFamily
            THEN [type |-> "str", text |-> McpErrorText(outcome.value)]
            ELSE [type |-> "exception", text |-> outcome.value]
       ELSE [type |-> "str", text |-> "result"]]

\* The body of a tool: the blank-task check of browser_use_local_chrome,
\* then try: await <operation>; return <rendered value>
\* except Exception as e: return error_msg
McpTool(tool, task, outcome) ==
    IF tool = "browser_use_local_chrome" /\ (task = <<>> \/ Strip(task) = <<>>)
    THEN [calls |-> <<>>,
          result |-> [type |-> "str", text |-> "error:empty_task"]]
    ELSE [calls |-> <<[fn |-> McpTools[tool].fn, outcome |-> outcome]>>,
          result |->
            IF outcome.kind = "raise"
            THEN [type |-> "str", text |-> McpErrorText(outcome.value)]
            ELSE IF /\ McpTools[tool].render = "json.dumps"
                    /\ outcome.value = "unserialisable"
            THEN [type |-> "str", text |-> McpErrorText("TypeError")]
            ELSE [type |-> "str", text |-> "result"]]

InitMcp ==
    /\ SelectIdle
    /\ ScanIdle
    /\ WaitIdle
    /\ OpIdle
    /\ ConfigIdle
    /\ GridIdle
    /\ CaptureIdle
    /\ RankIdle
    /\ AgentIdle
    /\ ConcIdle
    /\ LogIdle
    /\ LaunchIdle
    /\ mTool \in McpToolNames
    /\ mTask \in TaskTexts
    /\ mPc = "call"
    /\ mCalls = <<>>
    /\ mResult = [type |-> "none", text |-> "none"]

McpInvoke ==
    /\ mPc = "call"
    /\ \E outcome \in McpOutcomes :
        LET r == McpTool(mTool, mTask, outcome)
        IN  /\ mCalls' = r.calls
            /\ mResult' = r.result
    /\ mPc' = "done"
    /\ UNCHANGED <<mTool, mTask, notMcp>>

NextMcp == McpInvoke

SpecMcp == InitMcp /\ [][NextMcp]_vars

\* A task text with no letter in it
BlankTask(t) == \A i \in 1..Len(t) : t[i] = "sp"

\* C27: a finished tool invocation has returned a string; when the
\* operation it awaited raised, the string is an error message; and
\* browser_use_local_chrome given an empty or all-blank task returns an
\* error message without having called run_task.
C27_ToolsAlwaysReturnStrings ==
    mPc = "done"
    => /\ mResult.type = "str"
       /\ \A i \in 1..Len(mCalls) :
            mCalls[i].outcome.kind = "raise"
            => mResult.text = "error:" \o mCalls[i].outcome.value
       /\ (mTool = "browser_use_local_chrome" /\ BlankTask(mTask))
          => (mCalls = <<>> /\ mResult.text = "error:empty_task")
       /\ (mTool # "browser_use_local_chrome" \/ ~BlankTask(mTask))
          => (Len(mCalls) = 1 /\ mCalls[1].fn = McpTools[mTool].fn)

\* run_script raised an exception of a library and the tool returned it
\* as text.
C27_Witness ==
    /\ mPc = "done"
    /\ mTool = "run_javascript_in_browser"
    /\ Len(mCalls) = 1
    /\ mCalls[1].outcome = [kind |-> "raise", value |-> "PlaywrightError"]
    /\ mResult = [type |-> "str", text |-> "error:PlaywrightError"]

(***************************************************************************)
(* SpecLog: logging_config.py.  The loggers start with whatever handlers   *)
(* were attached before the module is imported; the only step is a call of *)
(* setup_logger_for_mcp_server.                                            *)
(***************************************************************************)

\* The loggers setup_logger_for_mcp_server names besides the root logger
ThirdPartyLoggers == LoggerNames \ {""}

\* Logger.addHandler: appended unless already attached
AddHandler(hs, h) ==
    IF \E i \in 1..Len(hs) : hs[i] = h THEN hs ELSE Append(hs, h)

\* The set-up without its flag and without clearing the handlers
SetupLoggerUnguarded(flag, handlers, propagate) ==
    [flag |-> TRUE,
     handlers |-> [n \in LoggerNames |-> AddHandler(handlers[n], "file_handler")],
     propagate |-> [n \in LoggerNames |-> IF n = "" THEN propagate[n] ELSE FALSE]]

\* setup_logger_for_mcp_server()
SetupLogger(flag, handlers, propagate) ==
    IF flag
    THEN [flag |-> flag, handlers |-> handlers, propagate |-> propagate]
    ELSE [flag |-> TRUE,
          handlers |-> [n \in LoggerNames |-> AddHandler(<<>>, "file_handler")],
          propagate |->
            [n \in LoggerNames |-> IF n = "" THEN propagate[n] ELSE FALSE]]

InitLog ==
    /\ SelectIdle
    /\ ScanIdle
    /\ WaitIdle
    /\ OpIdle
    /\ ConfigIdle
    /\ GridIdle
    /\ CaptureIdle
    /\ RankIdle
    /\ AgentIdle
    /\ ConcIdle
    /\ McpIdle
    /\ LaunchIdle
    /\ logger_set_up = FALSE
    /\ lHandlers \in [LoggerNames -> {<<>>, <<"stream_handler">>}]
    /\ lPropagate = [n \in LoggerNames |-> TRUE]
    /\ lCalls = 0
    /\ lBefore = <<>>

LogState ==
    [flag |-> logger_set_up, handlers |-> lHandlers, propagate |-> lPropagate]

SetupCall ==
    /\ lCalls < MaxSetupCalls
    /\ LET r == SetupLogger(logger_set_up, lHandlers, lPropagate)
       IN  /\ logger_set_up' = r.flag
           /\ lHandlers' = r.handlers
           /\ lPropagate' = r.propagate
    /\ lBefore' = <<LogState>>
    /\ lCalls' = lCalls + 1
    /\ UNCHANGED notLog

NextLog == SetupCall

SpecLog == InitLog /\ [][NextLog]_vars

\* C28: after one or more calls of setup_logger_for_mcp_server the root
\* logger and each named logger hold the file handler and nothing else,
\* and a second or later call has left the flag, the handlers and the
\* propagate settings as they were before it.
C28_SetupIdempotent ==
    /\ lCalls >= 1
       => /\ logger_set_up
          /\ \A n \in LoggerNames : lHandlers[n] = <<"file_handler">>
          /\ \A n \in ThirdPartyLoggers : lPropagate[n] = FALSE
    /\ lCalls >= 2 => lBefore = <<LogState>>

\* A repeated call has run and changed nothing.
C28_Witness ==
    /\ lCalls >= 2
    /\ lBefore = <<LogState>>
    /\ logger_set_up
    /\ \A n \in LoggerNames : lHandlers[n] = <<"file_handler">>

(***************************************************************************)
(* SpecLaunch: one invocation of the tool launch_chrome_with_debug         *)
(* (mcp_server.py lines 677-846) in every environment: remote flag, state  *)
(* of the debugging port, answer of /json/version, presence of a Chrome    *)
(* executable, outcome of Popen, answer of /json/version after the launch. *)
(***************************************************************************)

\* What GET /json/version can yield: a response (status, kind of body) or
\* an exception of the client
VersionAnswers ==
    {[status |-> "200", body |-> "json_object"],
     [status |-> "200", body |-> "json_array"],
     [status |-> "200", body |-> "html"],
     [status |-> "404", body |-> "html"],
     [status |-> "ConnectError", body |-> "none"],
     [status |-> "TimeoutException", body |-> "none"]}

LaunchEnvs ==
    [remote : BOOLEAN, portInUse : BOOLEAN, version : VersionAnswers,
     executable : BOOLEAN, popen : {"ok", "OSError"},
     after : VersionAnswers, as_guest : BOOLEAN]

\* if response.status_code == 200: version_info = response.json();
\* browser_info = version_info.get('Browser', 'Unknown'); return ...
\* TRUE when that return is reached; response.json() raises on a body
\* that is not JSON and .get raises on a JSON value that is not an object.
VersionConfirmed(answer) ==
    /\ answer.status = "200"
    /\ answer.body = "json_object"

\* chrome_args after the executable and the port
ChromeArgs(as_guest) ==
    IF as_guest THEN <<"--guest">> ELSE <<"--user-data-dir">>

\* The part of the tool after the port check: find the executable, Popen,
\* sleep, confirm
LaunchChrome(env) ==
    IF ~env.executable
    THEN [spawned |-> <<>>, report |-> "chrome_not_found"]
    ELSE IF env.popen # "ok"
    THEN [spawned |-> <<>>, report |-> "launch_failed"]
    ELSE [spawned |-> ChromeArgs(env.as_guest),
          report |-> IF VersionConfirmed(env.after)
                     THEN "launched_confirmed"
                     ELSE "launched_unconfirmed"]

\* The tool without its port check
LaunchChromeWithDebugNoPortCheck(env) ==
    IF env.remote
    THEN [spawned |-> <<>>, report |-> "remote_in_use"]
    ELSE LaunchChrome(env)

\* launch_chrome_with_debug(as_guest)
LaunchChromeWithDebug(env) ==
    IF env.remote
    THEN [spawned |-> <<>>, report |-> "remote_in_use"]
    ELSE IF env.portInUse
    THEN [spawned |-> <<>>,
          report |-> IF VersionConfirmed(env.version)
                     THEN "already_running"
                     ELSE "port_warning"]
    ELSE LaunchChrome(env)

InitLaunch ==
    /\ SelectIdle
    /\ ScanIdle
    /\ WaitIdle
    /\ OpIdle
    /\ ConfigIdle
    /\ GridIdle
    /\ CaptureIdle
    /\ RankIdle
    /\ AgentIdle
    /\ ConcIdle
    /\ McpIdle
    /\ LogIdle
    /\ lnEnv \in LaunchEnvs
    /\ lnPc = "call"
    /\ lnSpawned = <<>>
    /\ lnReport = "none"

LaunchCall ==
    /\ lnPc = "call"
    /\ LET r == LaunchChromeWithDebug(lnEnv)
       IN  /\ lnSpawned' = r.spawned
           /\ lnReport' = r.report
    /\ lnPc' = "done"
    /\ UNCHANGED <<lnEnv, notLaunch>>

NextLaunch == LaunchCall

SpecLaunch == InitLaunch /\ [][NextLaunch]_vars

\* C29 as stated: no Chrome is spawned in remote mode or when the port is
\* in use; with the port in use, a 200 answer of the version endpoint
\* gives the report "already running" and any other outcome the warning.
C29_AsStated ==
    lnPc = "done"
    => /\ (lnEnv.remote \/ lnEnv.portInUse) => lnSpawned = <<>>
       /\ (~lnEnv.remote /\ lnEnv.portInUse /\ lnEnv.version.status = "200")
          => lnReport = "already_running"
       /\ (~lnEnv.remote /\ lnEnv.portInUse /\ lnEnv.version.status # "200")
          => lnReport = "port_warning"

\* C29: no Chrome is spawned in remote mode or when the port is in use;
\* with the port in use, the report is "already running" when the version
\* endpoint answers 200 with a JSON object, and the warning when it
\* answers anything else or the request fails.
C29_NoSpawnWhenBusy ==
    lnPc = "done"
    => /\ (lnEnv.remote \/ lnEnv.portInUse) => lnSpawned = <<>>
       /\ lnEnv.remote => lnReport = "remote_in_use"
       /\ (/\ ~lnEnv.remote
           /\ lnEnv.portInUse
           /\ lnEnv.version = [status |-> "200", body |-> "json_object"])
          => lnReport = "already_running"
       /\ (/\ ~lnEnv.remote
           /\ lnEnv.portInUse
           /\ lnEnv.version # [status |-> "200", body |-> "json_object"])
          => lnReport = "port_warning"

\* The port is held by a server that answers 200 with a page that is not
\* JSON: the tool warns and launches nothing.
C29_Witness ==
    /\ lnPc = "done"
    /\ ~lnEnv.remote
    /\ lnEnv.portInUse
    /\ lnEnv.version = [status |-> "200", body |-> "html"]
    /\ lnReport = "port_warning"
    /\ lnSpawned = <<>>

(***************************************************************************)
(* Further properties of the public operations (under Spec)                *)
(***************************************************************************)
\* _get_active_page returned a page to the operation: its last statement
\* before the return, _setup_page_logging, has run
PageAcquired == Contains(calls, "page.on")

\* C31: run_python_script, once _get_active_page has given it a page, has
\* closed the connection when it returns or raises, also when the
\* load-state wait before the script raised.
C31_PythonScriptAlwaysCloses ==
    (OpDone /\ op = "run_python_script" /\ PageAcquired)
    => Count(calls, "close") = 1

\* Every way the agent run of run_task can end
AgentRunResults ==
    { RunAgent(arg, env, agent).result :
        arg \in StepArgs, env \in StepEnvs, agent \in AgentBehaviours }

ReloadEntries ==
    {"reload:javascript", "reload:keyboard", "reload:cdp", "reload:none"}

\* The reload mechanisms invoked, in order
ReloadsMade ==
    { i \in 1..Len(calls) : calls[i] \in ReloadEntries }

\* C33: a super_reload call that reached its reload step invoked one
\* mechanism and no more: the in-page reload for mode 'javascript', the
\* keyboard shortcut for 'keyboard', the CDP Page.reload for every other
\* mode; when the mechanism failed the call ends with
\* BrowserBotTaskFailedError and close() is the last call made.
C33_OneReloadByMode ==
    (OpDone /\ op = "super_reload" /\ Contains(calls, "work"))
    => /\ Cardinality(ReloadsMade) = 1
       /\ \A m \in ReloadModes :
            Contains(calls, "mode=" \o m)
            => \A i \in ReloadsMade :
                 calls[i] = (CASE m = "javascript" -> "reload:javascript"
                               [] m = "keyboard" -> "reload:keyboard"
                               [] OTHER -> "reload:cdp")
       /\ \E m \in ReloadModes : Contains(calls, "mode=" \o m)
       /\ Contains(calls, "reload:failed")
          => /\ opOutcome.kind = "raise"
             /\ opOutcome.error = "BrowserBotTaskFailedError"
             /\ LastCall = "close"
             /\ Count(calls, "close") = 1

\* An unrecognised mode reloaded through CDP and the call returned.
C33_Witness ==
    /\ OpDone
    /\ op = "super_reload"
    /\ Contains(calls, "mode=hard")
    /\ Contains(calls, "reload:cdp")
    /\ opOutcome = Return

\* The calls that add a tab or change the URL of one
TabChangingCalls ==
    {"new_page", "goto", "reload:javascript", "reload:keyboard", "reload:cdp"}

\* C34: get_current_url makes no call that creates a page or navigates; on
\* a browser it connected to, it fails with BrowserRuntimeError when there
\* is no eligible page and otherwise returns the url of the selected page
\* with its title, 'Unknown' when the title read failed.
C34_CurrentUrlReadsOnly ==
    (op = "get_current_url")
    => /\ \A i \in 1..Len(calls) : calls[i] \notin TabChangingCalls
       /\ (OpDone /\ Contains(calls, "contexts"))
          => IF EligiblePages = {}
             THEN /\ opOutcome.kind = "raise"
                  /\ opOutcome.error = "BrowserRuntimeError"
             ELSE /\ opPage \in EligiblePages
                  /\ opOutcome =
                       [kind |-> "return", error |-> "none",
                        msg |-> opPage.url \o
                                <<IF Contains(calls, "title:failed")
                                  THEN "Unknown" ELSE "title">>]

\* The only tab does not answer the title read: its url is returned with
\* the title 'Unknown'.
C34_Witness ==
    /\ OpDone
    /\ op = "get_current_url"
    /\ contexts = << <<PageNoTitle>> >>
    /\ Contains(calls, "title:failed")
    /\ opOutcome = [kind |-> "return", error |-> "none",
                    msg |-> <<"https", "://", "a.test", "Unknown">>]

RankTabs(i) ==
    { [id |-> i, st |-> "ok", hasFocus |-> f, visibilityState |-> v,
       lastUsed |-> u] :
        f \in BOOLEAN, v \in VisibilityStates, u \in 0..MaxTs }
    \cup
    { [id |-> i, st |-> "evalFails", hasFocus |-> FALSE,
       visibilityState |-> "hidden", lastUsed |-> 0] }

\* Milliseconds that can pass while one page is queried
QueryDurations == {0, 1}

\* A query that reports when the user last used the page
QueryTabLastUsed(tab, now) ==
    IF tab.st # "ok" THEN <<>>
    ELSE << [page |-> tab, title |-> "title", has_focus |-> tab.hasFocus,
             visibility_state |-> tab.visibilityState,
             timestamp |-> tab.lastUsed] >>

\* One iteration: page.title(), page.evaluate(...) with timestamp: Date.now(),
\* page_info.append(...); an exception skips the page.  now: the clock of
\* the browser when the script runs.
QueryTab(tab, now) ==
    IF tab.st # "ok" THEN <<>>
    ELSE << [page |-> tab, title |-> "title", has_focus |-> tab.hasFocus,
             visibility_state |-> tab.visibilityState,
             timestamp |-> now] >>

InitRank ==
    /\ SelectIdle
    /\ ScanIdle
    /\ WaitIdle
    /\ OpIdle
    /\ ConfigIdle
    /\ GridIdle
    /\ CaptureIdle
    /\ AgentIdle
    /\ ConcIdle
    /\ McpIdle
    /\ LogIdle
    /\ LaunchIdle
    /\ rkTabs = <<>>
    /\ rkPc = "setup"
    /\ rkNext = 1
    /\ rkClock = 0
    /\ rkAsked = <<>>
    /\ rkInfo = <<>>
    /\ rkSelected = NoTab

\* The browser before the call: one more page in the list
RankAddTab ==
    /\ rkPc = "setup"
    /\ Len(rkTabs) < MaxRankPages
    /\ \E t \in RankTabs(Len(rkTabs) + 1) : rkTabs' = Append(rkTabs, t)
    /\ UNCHANGED <<rkPc, rkNext, rkClock, rkAsked, rkInfo, rkSelected, notRank>>

\* The call, with a non-empty list (if all_pages:)
RankStart ==
    /\ rkPc = "setup"
    /\ rkTabs # <<>>
    /\ rkPc' = "loop"
    /\ UNCHANGED <<rkTabs, rkNext, rkClock, rkAsked, rkInfo, rkSelected,
                   notRank>>

\* for page in pages: one iteration
RankQuery ==
    /\ rkPc = "loop"
    /\ rkNext <= Len(rkTabs)
    /\ \E d \in QueryDurations :
        LET now == rkClock + d
        IN  /\ rkClock' = now
            /\ rkAsked' = Append(rkAsked, now)
            /\ rkInfo' = rkInfo \o QueryTab(rkTabs[rkNext], now)
    /\ rkNext' = rkNext + 1
    /\ UNCHANGED <<rkTabs, rkPc, rkSelected, notRank>>

\* if not page_info: return None; page_info.sort(...); return page_info[0];
\* fault: an exception in the outer try (return None)
RankReturn ==
    /\ rkPc = "loop"
    /\ rkNext > Len(rkTabs)
    /\ \E fault \in BOOLEAN :
        rkSelected' = IF fault \/ rkInfo = <<>> THEN NoTab
                      ELSE SortReverse(rkInfo)[1].page
    /\ rkPc' = "returned"
    /\ UNCHANGED <<rkTabs, rkNext, rkClock, rkAsked, rkInfo, notRank>>

NextRank == RankAddTab \/ RankStart \/ RankQuery \/ RankReturn

SpecRank == InitRank /\ [][NextRank]_vars

RankIds == 1..Len(rkInfo)

CaptureOps == {"get_page_source", "get_visible_screenshot", "get_full_screenshot"}

TicksPerSecond == 2

\* strftime("%Y%m%d-%H%M%S"): the time cut to whole seconds
StrfTime(now) == now \div TicksPerSecond

\* filename = f"browser-bot-source-{timestamp}.html" and
\* f"browser-bot-screenshot-{timestamp}.png"
FilePrefix(o) ==
    IF o = "get_page_source" THEN "browser-bot-source-"
    ELSE "browser-bot-screenshot-"

FileExt(o) == IF o = "get_page_source" THEN ".html" ELSE ".png"

\* A file name that keeps the sub-second part of the time
OutputPathFine(o, now) ==
    [dir |-> "~/Downloads", prefix |-> FilePrefix(o), stamp |-> now,
     sub |-> now % TicksPerSecond, ext |-> FileExt(o)]

\* file_path = os.path.join(downloads_dir, filename)
OutputPath(o, now) ==
    [dir |-> "~/Downloads", prefix |-> FilePrefix(o), stamp |-> StrfTime(now),
     sub |-> 0, ext |-> FileExt(o)]

\* with open(file_path, "w"/"wb") as f: f.write(...): the file is created
\* or truncated and holds the bytes of capture `by`
WriteFile(files, path, by) ==
    { f \in files : f.path # path } \cup { [path |-> path, by |-> by] }

InitCapture ==
    /\ SelectIdle
    /\ ScanIdle
    /\ WaitIdle
    /\ OpIdle
    /\ ConfigIdle
    /\ GridIdle
    /\ AgentIdle
    /\ ConcIdle
    /\ McpIdle
    /\ LogIdle
    /\ LaunchIdle
    /\ RankIdle
    /\ fClock = 0
    /\ fFiles = {}
    /\ fReturned = <<>>

\* Half a second passes
CaptureTick ==
    /\ fClock < MaxTicks
    /\ fClock' = fClock + 1
    /\ UNCHANGED <<fFiles, fReturned, notCapture>>

\* The save step of one capture operation and its return value
CaptureSave ==
    /\ Len(fReturned) < MaxCaptures
    /\ \E o \in CaptureOps :
        LET file_path == OutputPath(o, fClock)
        IN  /\ fFiles' = WriteFile(fFiles, file_path, Len(fReturned) + 1)
            /\ fReturned' = Append(fReturned,
                                   [op |-> o, at |-> fClock,
                                    file_path |-> file_path])
    /\ UNCHANGED <<fClock, notCapture>>

NextCapture == CaptureTick \/ CaptureSave

SpecCapture == InitCapture /\ [][NextCapture]_vars

CaptureIds == 1..Len(fReturned)

\* The two screenshot operations write under one prefix, get_page_source
\* under another
SamePrefix(o1, o2) == (o1 = "get_page_source") <=> (o2 = "get_page_source")

\* C37: two captures of the same prefix (the two screenshot operations
\* count as one) whose save steps fall in the same second return the same
\* file_path, and the file then holds the later capture only; captures of
\* different prefixes or of different seconds return different paths.
C37_SameSecondSamePath ==
    \A i, j \in CaptureIds :
        i < j
        => IF /\ SamePrefix(fReturned[i].op, fReturned[j].op)
              /\ fReturned[i].at \div 2 = fReturned[j].at \div 2
           THEN /\ fReturned[i].file_path = fReturned[j].file_path
                /\ \A f \in fFiles :
                     f.path = fReturned[i].file_path => f.by # i
           ELSE fReturned[i].file_path # fReturned[j].file_path

\* A visible and a full screenshot half a second apart within one second:
\* one file, holding the second capture.
C37_Witness ==
    /\ Len(fReturned) = 2
    /\ fReturned[1].op = "get_visible_screenshot"
    /\ fReturned[2].op = "get_full_screenshot"
    /\ fReturned[1].at = 2
    /\ fReturned[2].at = 3
    /\ fReturned[1].file_path = fReturned[2].file_path
    /\ fFiles = { [path |-> fReturned[1].file_path, by |-> 2] }

(***************************************************************************)
(* SpecGrid: public operations run one after the other with                *)
(* BROWSER_BOT_USE_REMOTE set.  Each is taken as a whole: whether it ends  *)
(* before it asks for a connection, what the grid answers to               *)
(* webdriver.Remote (selenium_remote.py lines 49-51), and how the rest of  *)
(* the operation ends.                                                     *)
(***************************************************************************)
\* The operations that can end before they ask for a connection: the empty
\* script checks, the method check of request, run_lighthouse without npx
\* or with a url
CanEndBeforeConnection(o) ==
    ChecksInputFirst(o) \/ o \in {"request", "run_lighthouse"}

\* What webdriver.Remote and capabilities["se:cdp"] do:
\*   "ok"             a session is created and carries se:cdp
\*   "session_fails"  webdriver.Remote raises, no session is created
\*   "no_se_cdp"      a session is created, the capability is missing
GridAnswers == {"ok", "session_fails", "no_se_cdp"}

\* An operation that quits its session when it fails
RemoteOperationQuitsOnFailure(o, early, grid, ok) ==
    IF early /\ CanEndBeforeConnection(o)
    THEN [asked |-> FALSE, created |-> 0, quit |-> 0, returned |-> FALSE]
    ELSE IF grid = "session_fails"
    THEN [asked |-> TRUE, created |-> 0, quit |-> 0, returned |-> FALSE]
    ELSE IF grid = "no_se_cdp"
    THEN [asked |-> TRUE, created |-> 1, quit |-> 1, returned |-> FALSE]
    ELSE [asked |-> TRUE, created |-> 1, quit |-> IF ok THEN 0 ELSE 1,
          returned |-> ok]

\* One operation in remote mode: get_cdp_url_from_selenium_grid is called
\* by _get_browser_connection or run_task unless the operation ended
\* before; driver is a local that is dropped, driver.quit() is never called.
RemoteOperation(o, early, grid, ok) ==
    IF early /\ CanEndBeforeConnection(o)
    THEN [asked |-> FALSE, created |-> 0, quit |-> 0, returned |-> FALSE]
    ELSE IF grid = "session_fails"
    THEN [asked |-> TRUE, created |-> 0, quit |-> 0, returned |-> FALSE]
    ELSE IF grid = "no_se_cdp"
    THEN [asked |-> TRUE, created |-> 1, quit |-> 0, returned |-> FALSE]
    ELSE [asked |-> TRUE, created |-> 1, quit |-> 0, returned |-> ok]

InitGrid ==
    /\ SelectIdle
    /\ ScanIdle
    /\ WaitIdle
    /\ OpIdle
    /\ ConfigIdle
    /\ AgentIdle
    /\ ConcIdle
    /\ McpIdle
    /\ LogIdle
    /\ LaunchIdle
    /\ RankIdle
    /\ CaptureIdle
    /\ gSessions = {}
    /\ gCreated = 0
    /\ gQuit = 0
    /\ gDone = <<>>

GridOperation ==
    /\ Len(gDone) < MaxGridOps
    /\ \E o \in Ops, early \in BOOLEAN, grid \in GridAnswers, ok \in BOOLEAN :
        LET r == RemoteOperation(o, early, grid, ok)
            newest == gCreated + r.created
        IN  /\ gCreated' = newest
            /\ gQuit' = gQuit + r.quit
            /\ gSessions' =
                 IF r.created = 0 THEN gSessions
                 ELSE IF r.quit = 0 THEN gSessions \cup {newest}
                 ELSE gSessions
            /\ gDone' = Append(gDone, [op |-> o, asked |-> r.asked,
                                       created |-> r.created,
                                       returned |-> r.returned])
    /\ UNCHANGED notGrid

NextGrid == GridOperation

SpecGrid == InitGrid /\ [][NextGrid]_vars

RECURSIVE SumCreated(_)
SumCreated(done) ==
    IF done = <<>> THEN 0 ELSE Head(done).created + SumCreated(Tail(done))

\* C38 as stated: after n operations in remote mode n sessions have been
\* created and none has been released.
C38_AsStated ==
    /\ gCreated = Len(gDone)
    /\ gQuit = 0
    /\ Cardinality(gSessions) = Len(gDone)

\* C38: no session is ever quit; an operation creates one session when it
\* asks the grid for a connection and webdriver.Remote succeeds, and none
\* otherwise; so the sessions that exist are all those created, one per
\* such operation, whether the operation then returned or failed.
C38_SessionsNeverReleased ==
    /\ gQuit = 0
    /\ gCreated = SumCreated(gDone)
    /\ gSessions = 1..gCreated
    /\ \A i \in 1..Len(gDone) :
         /\ gDone[i].created \in {0, 1}
         /\ gDone[i].returned => gDone[i].created = 1
         /\ ~gDone[i].asked => gDone[i].created = 0

\* Two operations got a session, the first returned, the second failed:
\* both sessions still exist.
C38_Witness ==
    /\ Len(gDone) = 2
    /\ gDone[1].returned
    /\ ~gDone[2].returned
    /\ gDone[2].created = 1
    /\ gSessions = {1, 2}
    /\ gQuit = 0


\* The url argument is a real URL: truthy and not one of the sentinels
RealUrlArg == Truthy(url) /\ ~IsSentinelArg(url)

\* C39: super_reload with a url that is not a sentinel navigates once in
\* _get_active_page, and navigates a second time exactly when page.url then
\* differs from the url given: two gotos after a comparison that found a
\* difference, one after a comparison that found none, and the comparison
\* is made only on a page the wrapper returned.  Without a url (None or the
\* empty string) no goto is made at all.
C39_SecondGotoWhenUrlDiffers ==
    op = "super_reload"
    => /\ RealUrlArg
          => /\ Contains(calls, "page.url:differs")
                => Count(calls, "goto") = 2
             /\ Contains(calls, "page.url:same")
                => Count(calls, "goto") = 1
             /\ ~(Contains(calls, "page.url:differs")
                  \/ Contains(calls, "page.url:same"))
                => Count(calls, "goto") <= 1
             /\ PageAcquired => Count(calls, "goto") >= 1
             /\ Cardinality(ReloadsMade) > 0
                => (Contains(calls, "page.url:differs")
                    \/ Contains(calls, "page.url:same"))
       /\ ~Truthy(url) => Count(calls, "goto") = 0

\* A super_reload with a url that was redirected went there twice and then
\* reloaded.
C39_Witness ==
    /\ OpDone
    /\ op = "super_reload"
    /\ RealUrlArg
    /\ Contains(calls, "page.url:differs")
    /\ Count(calls, "goto") = 2
    /\ Contains(calls, "reload:cdp")
    /\ opOutcome.kind = "return"

\* A super_reload with a url that the page kept went there once.
C39_WitnessSame ==
    /\ OpDone
    /\ op = "super_reload"
    /\ Contains(calls, "page.url:same")
    /\ Count(calls, "goto") = 1
    /\ Cardinality(ReloadsMade) = 1

(***************************************************************************)
(* SpecConfig: the process starts in some environment, the two modules     *)
(* each derive their remote flag at import, and then the launch tool and   *)
(* the browser operations are called in any order.                         *)
(***************************************************************************)
\* The values an environment variable of the flags is given; PyNone: unset
EnvValues == {PyNone, "true", "TRUE", "True", "1", "yes", "false", "0", ""}

\* os.getenv(name, default)
GetEnv(value, default) == IF value = PyNone THEN default ELSE value

\* str.lower() on the strings of EnvValues
EnvLower(str) ==
    CASE str \in {"TRUE", "True"} -> "true"
      [] OTHER -> str

\* browser_bot.py: os.getenv("BROWSER_BOT_USE_REMOTE", "false").lower()
\*                 in {"true", "1", "yes"}
BotUseRemote(env) == EnvLower(GetEnv(env, "false")) \in {"true", "1", "yes"}

\* mcp_server.py: os.getenv("USE_REMOTE_BROWSER", "false").lower() == "true"
McpUseRemote(env) == EnvLower(GetEnv(env, "false")) = "true"

InitConfig ==
    /\ SelectIdle
    /\ ScanIdle
    /\ WaitIdle
    /\ OpIdle
    /\ AgentIdle
    /\ ConcIdle
    /\ McpIdle
    /\ LogIdle
    /\ LaunchIdle
    /\ RankIdle
    /\ CaptureIdle
    /\ GridIdle
    /\ cfEnvBot \in EnvValues
    /\ cfEnvMcp \in EnvValues
    /\ cfPc = "env"
    /\ cfBotRemote = FALSE
    /\ cfMcpRemote = FALSE
    /\ cfLaunch = "none"
    /\ cfConnect = "none"

\* import mcp_server, which imports browser_bot: both module-level flags
\* are assigned, each from its own variable of the environment
ConfigImport ==
    /\ cfPc = "env"
    /\ cfPc' = "running"
    /\ cfBotRemote' = BotUseRemote(cfEnvBot)
    /\ cfMcpRemote' = McpUseRemote(cfEnvMcp)
    /\ UNCHANGED <<cfEnvBot, cfEnvMcp, cfLaunch, cfConnect, notConfig>>

\* launch_chrome_with_debug: if USE_REMOTE_BROWSER: return without launching
ConfigLaunch ==
    /\ cfPc = "running"
    /\ cfLaunch' = IF cfMcpRemote THEN "skipped" ELSE "local"
    /\ UNCHANGED <<cfEnvBot, cfEnvMcp, cfPc, cfBotRemote, cfMcpRemote,
                   cfConnect, notConfig>>

\* _get_browser_connection: if BROWSER_BOT_USE_REMOTE: through the grid,
\* else connect_over_cdp(CHROME_DEBUG_URL)
ConfigConnect ==
    /\ cfPc = "running"
    /\ cfConnect' = IF cfBotRemote THEN "grid" ELSE "local"
    /\ UNCHANGED <<cfEnvBot, cfEnvMcp, cfPc, cfBotRemote, cfMcpRemote,
                   cfLaunch, notConfig>>

NextConfig ==
    \/ ConfigImport
    \/ ConfigLaunch
    \/ ConfigConnect

SpecConfig == InitConfig /\ [][NextConfig]_vars

\* C40: in every environment the launch tool treats the browser as remote
\* exactly when the browser operations connect through the grid.
C40_SameDecisionEverywhere ==
    (cfLaunch # "none" /\ cfConnect # "none")
    => (cfLaunch = "skipped" <=> cfConnect = "grid")

\* C40, for environments that give both variables the same value: the two
\* flags are equal.
C40_SameValueSameDecision ==
    (cfPc = "running" /\ cfEnvBot = cfEnvMcp) => cfBotRemote = cfMcpRemote

====
